---- MODULE Spec2Model ----
(***************************************************************************)
(* Conversation store, chat turn, model catalog and availability matching  *)
(* of the on-device assistant backend (backend/conversation_manager.py,    *)
(* backend/main.py, config/model_manager.py).                              *)
(*                                                                         *)
(* Conventions.                                                            *)
(*  - Optional[T] is a set: {} is None, {x} is the value x.                *)
(*  - A text is the sequence of its whitespace-separated words, so         *)
(*    len(text.split()) is Len(text); "" is << >>.                         *)
(*  - A datetime is a natural number of clock ticks; isoformat and         *)
(*    fromisoformat are modelled as the conversions they are.              *)
(*  - uuid4() is a counter: every call returns a value never seen before.  *)
(*  - The request handlers are "async def" bodies without any await, so    *)
(*    each one runs to completion on the event loop: one action each.      *)
(***************************************************************************)
EXTENDS Integers, Sequences, FiniteSets, TLC

VARIABLES
  conversations,        \* ConversationManager.conversations: id -> Conversation
  uuid,                 \* number of uuid4() values handed out so far
  now,                  \* the wall clock read by datetime.now()
  SERVICES_AVAILABLE,   \* main.py module flag, fixed at import time
  last,                 \* outcome of the most recent call, as its caller sees it
  config_data,          \* ModelConfigManager._config_data
  config_file,          \* content of config/models.json, None when absent
  ollama_model_names,   \* model names the daemon reports (list_models)
  available,            \* availability computed by GET /api/models/config
  token_check,          \* result of the most recent TokenManager.check_prompt_size
  turns,                \* chat_completion coroutines in flight, by arrival
  running               \* the coroutine the event loop is executing, if any

storeVars == <<conversations, uuid, now, SERVICES_AVAILABLE>>
catalogVars == <<config_data, config_file>>
availVars == <<ollama_model_names, available>>
checkVars == <<token_check>>
turnVars == <<turns, running>>
vars == <<conversations, uuid, now, SERVICES_AVAILABLE, last, config_data,
          config_file, ollama_model_names, available, token_check, turns,
          running>>

-----------------------------------------------------------------------------
(* Bounds of the model *)
MaxUuid == 6
MaxTok == 2
MaxTime == 1
SmallMaxTokens == 4

(* Program constants *)
DefaultMaxTokens == 8192
DemoTokens == 20
TicksPerSecond == 2

None == {}
Some(x) == {x}
Get(o) == CHOOSE x \in o : TRUE

Roles == {"system", "user", "assistant"}
default_system_prompt == <<"You", "are", "a", "helpful", "AI", "assistant">>

-----------------------------------------------------------------------------
(* ChatMessage / Conversation *)

ChatMessage(id, role, content, timestamp, token_count, metadata) ==
  [id |-> id, role |-> role, content |-> content, timestamp |-> timestamp,
   token_count |-> token_count, metadata |-> metadata]

\* "msg.token_count or 0", "if token_count:" : None and 0 are both falsy
TokenOr0(token_count) == IF token_count = None THEN 0 ELSE Get(token_count)

RECURSIVE SumTokens(_)
SumTokens(messages) ==
  IF messages = << >> THEN 0
  ELSE TokenOr0(Head(messages).token_count) + SumTokens(Tail(messages))

RECURSIVE Filter(_, _)
Filter(messages, keepSystem) ==
  IF messages = << >> THEN << >>
  ELSE IF (Head(messages).role = "system") = keepSystem
       THEN <<Head(messages)>> \o Filter(Tail(messages), keepSystem)
       ELSE Filter(Tail(messages), keepSystem)

Conversation(id, title, model_id, messages, created_at, updated_at, total_tokens, max_tokens, system_prompt) ==
  [id |-> id, title |-> title, model_id |-> model_id, messages |-> messages,
   created_at |-> created_at, updated_at |-> updated_at,
   total_tokens |-> total_tokens, max_tokens |-> max_tokens,
   system_prompt |-> system_prompt]

\* Python truthiness of an Optional[str] / Optional text: None and "" are falsy
Truthy(opt, empty) == opt # None /\ Get(opt) # empty

-----------------------------------------------------------------------------
(* ConversationManager, as functions of the conversation they act on *)

\* create_conversation without its "if not system_prompt:" substitution of
\* the default persona: no system message for an omitted or empty prompt
NewConversation_NoDefault(conversation_id, message_id, model_id, title, system_prompt, max_tokens, t) ==
  LET title1 == IF ~Truthy(title, "") THEN <<"Chat", t>> ELSE <<Get(title)>>
      messages == IF Truthy(system_prompt, << >>)
                  THEN <<ChatMessage(message_id, "system", Get(system_prompt),
                                     t, None, None)>>
                  ELSE << >>
  IN Conversation(conversation_id, title1, model_id, messages, t, t, 0,
                  max_tokens, system_prompt)

\* create_conversation: the Conversation object it builds
NewConversation(conversation_id, message_id, model_id, title, system_prompt, max_tokens, t) ==
  LET title1 == IF ~Truthy(title, "") THEN <<"Chat", t>> ELSE <<Get(title)>>
      prompt1 == IF ~Truthy(system_prompt, << >>)
                 THEN Some(default_system_prompt) ELSE system_prompt
      messages == IF Truthy(prompt1, << >>)
                  THEN <<ChatMessage(message_id, "system", Get(prompt1), t,
                                     None, None)>>
                  ELSE << >>
  IN Conversation(conversation_id, title1, model_id, messages, t, t, 0,
                  max_tokens, prompt1)

\* add_message without its "conversation.total_tokens += token_count"
AppendMessage_NoTotal(conversation, message_id, role, content, token_count, metadata, t) ==
  [conversation EXCEPT
     !.messages = Append(@, ChatMessage(message_id, role, content, t,
                                        token_count, metadata)),
     !.updated_at = t]

\* add_message with "conversation.messages.insert(0, message)"
AppendMessage_AtFront(conversation, message_id, role, content, token_count, metadata, t) ==
  [conversation EXCEPT
     !.messages = <<ChatMessage(message_id, role, content, t, token_count,
                                metadata)>> \o @,
     !.updated_at = t,
     !.total_tokens = IF token_count # None /\ Get(token_count) # 0
                      THEN @ + Get(token_count) ELSE @]

\* add_message: the conversation after the append
AppendMessage(conversation, message_id, role, content, token_count, metadata, t) ==
  [conversation EXCEPT
     !.messages = Append(@, ChatMessage(message_id, role, content, t,
                                        token_count, metadata)),
     !.updated_at = t,
     !.total_tokens = IF token_count # None /\ Get(token_count) # 0
                      THEN @ + Get(token_count) ELSE @]

\* get_conversation_for_model: the {role, content} projection
RECURSIVE ModelMessages(_)
ModelMessages(messages) ==
  IF messages = << >> THEN << >>
  ELSE <<[role |-> Head(messages).role, content |-> Head(messages).content]>>
       \o ModelMessages(Tail(messages))

\* trim_conversation: "target_tokens = conversation.max_tokens * 0.75" when None.
\* Targets are kept in quarters of a token so that the comparison is exact.
TargetQuarters(conversation, target_tokens) ==
  IF target_tokens = None THEN 3 * conversation.max_tokens
  ELSE 4 * Get(target_tokens)

\* the loop with "len(other_messages) > 1": keeps only the last message
RECURSIVE TrimLoop_KeepOne(_, _, _, _)
TrimLoop_KeepOne(other_messages, current_tokens, target4, trimmed_count) ==
  IF 4 * current_tokens > target4 /\ Len(other_messages) > 1
  THEN LET removed_message == Head(other_messages)
       IN TrimLoop_KeepOne(Tail(other_messages),
                   current_tokens - TokenOr0(removed_message.token_count),
                   target4, trimmed_count + 1)
  ELSE [other_messages |-> other_messages, current_tokens |-> current_tokens,
        trimmed_count |-> trimmed_count]

\* the loop with "current_tokens >= target_tokens": one removal too many when
\* the running total meets the target exactly
RECURSIVE TrimLoop_AtTarget(_, _, _, _)
TrimLoop_AtTarget(other_messages, current_tokens, target4, trimmed_count) ==
  IF 4 * current_tokens >= target4 /\ Len(other_messages) > 2
  THEN LET removed_message == Head(other_messages)
       IN TrimLoop_AtTarget(Tail(other_messages),
                   current_tokens - TokenOr0(removed_message.token_count),
                   target4, trimmed_count + 1)
  ELSE [other_messages |-> other_messages, current_tokens |-> current_tokens,
        trimmed_count |-> trimmed_count]

\* the loop with "len(other_messages) > 0": keeps no message once over target
RECURSIVE TrimLoop_KeepNone(_, _, _, _)
TrimLoop_KeepNone(other_messages, current_tokens, target4, trimmed_count) ==
  IF 4 * current_tokens > target4 /\ Len(other_messages) > 0
  THEN LET removed_message == Head(other_messages)
       IN TrimLoop_KeepNone(Tail(other_messages),
                   current_tokens - TokenOr0(removed_message.token_count),
                   target4, trimmed_count + 1)
  ELSE [other_messages |-> other_messages, current_tokens |-> current_tokens,
        trimmed_count |-> trimmed_count]

\* the while loop of trim_conversation
RECURSIVE TrimLoop(_, _, _, _)
TrimLoop(other_messages, current_tokens, target4, trimmed_count) ==
  IF 4 * current_tokens > target4 /\ Len(other_messages) > 2
  THEN LET removed_message == Head(other_messages)
       IN TrimLoop(Tail(other_messages),
                   current_tokens - TokenOr0(removed_message.token_count),
                   target4, trimmed_count + 1)
  ELSE [other_messages |-> other_messages, current_tokens |-> current_tokens,
        trimmed_count |-> trimmed_count]

\* trim_conversation with an "if" for its "while": one removal per call
Trim_OneRemoval(conversation, target_tokens) ==
  LET target4 == TargetQuarters(conversation, target_tokens)
      system_messages == Filter(conversation.messages, TRUE)
      other_messages == Filter(conversation.messages, FALSE)
  IN IF 4 * conversation.total_tokens <= target4
     THEN [conversation |-> conversation, trimmed_count |-> 0]
     ELSE IF Len(other_messages) > 2
          THEN [conversation |->
                  [conversation EXCEPT
                     !.messages = system_messages \o Tail(other_messages),
                     !.total_tokens =
                        @ - TokenOr0(Head(other_messages).token_count)],
                trimmed_count |-> 1]
          ELSE [conversation |->
                  [conversation EXCEPT
                     !.messages = system_messages \o other_messages],
                trimmed_count |-> 0]

\* trim_conversation on a conversation that exists: the conversation it leaves
\* and the count it returns
Trim(conversation, target_tokens) ==
  LET target4 == TargetQuarters(conversation, target_tokens)
  IN IF 4 * conversation.total_tokens <= target4
     THEN [conversation |-> conversation, trimmed_count |-> 0]
     ELSE LET system_messages == Filter(conversation.messages, TRUE)
              r == TrimLoop(Filter(conversation.messages, FALSE),
                            conversation.total_tokens, target4, 0)
          IN [conversation |->
                [conversation EXCEPT
                   !.messages = system_messages \o r.other_messages,
                   !.total_tokens = r.current_tokens],
              trimmed_count |-> r.trimmed_count]

-----------------------------------------------------------------------------
(* Serialisation: to_dict / from_dict *)

\* isoformat(timespec='seconds'): the fraction is dropped
isoformat_Seconds(t) == <<t \div TicksPerSecond>>

\* datetime.isoformat(): seconds, and the fraction only when it is not zero
isoformat(t) ==
  IF t % TicksPerSecond = 0 THEN <<t \div TicksPerSecond>>
  ELSE <<t \div TicksPerSecond, t % TicksPerSecond>>

\* datetime.fromisoformat()
fromisoformat(s) ==
  s[1] * TicksPerSecond + (IF Len(s) > 1 THEN s[2] ELSE 0)

ChatMessage_to_dict(message) ==
  [message EXCEPT !.timestamp = isoformat(message.timestamp)]

ChatMessage_from_dict(data) ==
  ChatMessage(data.id, data.role, data.content, fromisoformat(data.timestamp),
              data.token_count, data.metadata)

Conversation_to_dict(conversation) ==
  [id |-> conversation.id,
   title |-> conversation.title,
   model_id |-> conversation.model_id,
   messages |-> [i \in 1..Len(conversation.messages) |->
                   ChatMessage_to_dict(conversation.messages[i])],
   created_at |-> isoformat(conversation.created_at),
   updated_at |-> isoformat(conversation.updated_at),
   total_tokens |-> conversation.total_tokens,
   max_tokens |-> conversation.max_tokens,
   system_prompt |-> conversation.system_prompt]

Conversation_from_dict(data) ==
  Conversation(data.id, data.title, data.model_id,
               [i \in 1..Len(data.messages) |->
                  ChatMessage_from_dict(data.messages[i])],
               fromisoformat(data.created_at), fromisoformat(data.updated_at),
               data.total_tokens, data.max_tokens, data.system_prompt)

-----------------------------------------------------------------------------
(* Inputs *)

\* ids of the conversations in the store
KnownIds == DOMAIN conversations
ModelIds == {"llama3.2:3b"}
TitleInputs == {None}
PromptInputs == {None, Some(<< >>), Some(<<"Be", "brief">>)}
MaxTokensInputs == {SmallMaxTokens}
\* add_message called directly: "user" and "assistant" are treated alike by the
\* store, "assistant" messages enter through the chat turn
AddRoles == {"system", "user"}
Texts == {<<"Hi">>}
TokenCountInputs == {None, Some(MaxTok)}
AnyTokenCountInputs == {None} \cup {Some(n) : n \in 0..MaxTok}
TargetInputs == {None} \cup {Some(n) : n \in 0..MaxTok}
ChatMessages == {<<"Hi">>, <<"Hi", "there", "friend">>}
\* what the inference collaborator hands back: a text or None
Responses == {None, Some(<< >>), Some(<<"Hello">>)}


\* What the caller of an operation gets back: the status (a return value, the
\* exception raised, or the HTTP status of a handler), the conversation id
\* concerned, a number (trimmed count, or id of the message appended), and for
\* a chat turn the id of its user message and how the collaborator call went.
ChatOutcome(op, status, cid, n, user, collab) ==
  [op |-> op, status |-> status, cid |-> cid, n |-> n, user |-> user,
   collab |-> collab, estimated_tokens |-> 0, trim_invoked |-> FALSE,
   trimmed |-> 0, history |-> << >>, calls |-> << >>]
\* ChatRequest.conversation_id: absent, or the id of a conversation
RequestIds == {None} \cup {Some(c) : c \in KnownIds}
Outcome(op, status, cid, n) == ChatOutcome(op, status, cid, n, 0, "")

-----------------------------------------------------------------------------
(* Store operations *)

\* conversation_manager = ConversationManager(): no conversations
InitStore ==
  /\ conversations = << >>
  /\ uuid = 0
  /\ now = 0
  /\ last = Outcome("init", "ok", None, 0)

tick ==
  /\ now < MaxTime
  /\ now' = now + 1
  /\ UNCHANGED <<conversations, uuid, SERVICES_AVAILABLE, last>>

create_conversation(model_id, title, system_prompt, max_tokens) ==
  /\ uuid + 2 <= MaxUuid
  /\ LET conversation == NewConversation(uuid + 1, uuid + 2, model_id, title,
                                         system_prompt, max_tokens, now)
     IN /\ conversations' = conversations @@ (conversation.id :> conversation)
        /\ uuid' = uuid + 1 + Len(conversation.messages)
        /\ last' = Outcome("create", "ok", Some(conversation.id), 0)
  /\ UNCHANGED <<now, SERVICES_AVAILABLE>>

add_message(conversation_id, role, content, token_count, metadata) ==
  /\ IF conversation_id \notin DOMAIN conversations
     THEN /\ last' = Outcome("add", "ValueError", Some(conversation_id), 0)
          /\ UNCHANGED <<conversations, uuid>>
     ELSE /\ uuid + 1 <= MaxUuid
          /\ conversations' =
               [conversations EXCEPT ![conversation_id] =
                  AppendMessage(@, uuid + 1, role, content, token_count,
                                metadata, now)]
          /\ uuid' = uuid + 1
          /\ last' = Outcome("add", "ok", Some(conversation_id), uuid + 1)
  /\ UNCHANGED <<now, SERVICES_AVAILABLE>>

trim_conversation(conversation_id, target_tokens) ==
  /\ IF conversation_id \notin DOMAIN conversations
     THEN /\ last' = Outcome("trim", "ValueError", Some(conversation_id), 0)
          /\ UNCHANGED conversations
     ELSE LET r == Trim(conversations[conversation_id], target_tokens)
          IN /\ conversations' =
                  [conversations EXCEPT ![conversation_id] = r.conversation]
             /\ last' = Outcome("trim", "ok", Some(conversation_id),
                                r.trimmed_count)
  /\ UNCHANGED <<uuid, now, SERVICES_AVAILABLE>>

delete_conversation_Pop(conversation_id) ==
  /\ conversations' =
       [c \in DOMAIN conversations \ {conversation_id} |-> conversations[c]]
  /\ last' = Outcome("delete", "True", Some(conversation_id), 0)
  /\ UNCHANGED <<uuid, now, SERVICES_AVAILABLE>>

delete_conversation(conversation_id) ==
  /\ IF conversation_id \in DOMAIN conversations
     THEN /\ conversations' =
               [c \in DOMAIN conversations \ {conversation_id} |->
                  conversations[c]]
          /\ last' = Outcome("delete", "True", Some(conversation_id), 0)
     ELSE /\ last' = Outcome("delete", "False", Some(conversation_id), 0)
          /\ UNCHANGED conversations
  /\ UNCHANGED <<uuid, now, SERVICES_AVAILABLE>>

update_conversation_title(conversation_id, title) ==
  /\ IF conversation_id \in DOMAIN conversations
     THEN /\ conversations' =
               [conversations EXCEPT ![conversation_id] =
                  [@ EXCEPT !.title = <<title>>, !.updated_at = now]]
          /\ last' = Outcome("rename", "True", Some(conversation_id), 0)
     ELSE /\ last' = Outcome("rename", "False", Some(conversation_id), 0)
          /\ UNCHANGED conversations
  /\ UNCHANGED <<uuid, now, SERVICES_AVAILABLE>>

\* export_conversation(conversation_id) and then import_conversation(data) of
\* what it returned, into the same manager or into a newly constructed one
export_import(conversation_id, fresh) ==
  /\ IF conversation_id \notin DOMAIN conversations
     THEN /\ last' = Outcome("export", "None", Some(conversation_id), 0)
          /\ UNCHANGED conversations
     ELSE LET data == Conversation_to_dict(conversations[conversation_id])
              conversation == Conversation_from_dict(data)
              store == IF fresh THEN << >> ELSE conversations
          IN /\ conversations' = (conversation.id :> conversation) @@ store
             /\ last' = Outcome("import", "ok", Some(conversation.id), 0)
  /\ UNCHANGED <<uuid, now, SERVICES_AVAILABLE>>

\* import_conversation(data): the conversation replaces any one of its id
import_conversation(data) ==
  /\ LET conversation == Conversation_from_dict(data)
     IN /\ conversations' = (conversation.id :> conversation) @@ conversations
        /\ last' = Outcome("import", "ok", Some(conversation.id), 0)
  /\ UNCHANGED <<uuid, now, SERVICES_AVAILABLE>>

\* get_conversation: self.conversations.get(conversation_id)
get_conversation(conversation_id) ==
  /\ last' = Outcome("get",
                     IF conversation_id \in DOMAIN conversations
                     THEN "ok" ELSE "None",
                     Some(conversation_id), 0)
  /\ UNCHANGED <<conversations, uuid, now, SERVICES_AVAILABLE>>

\* get_conversation_for_model: n is the number of messages handed to the model
get_conversation_for_model(conversation_id) ==
  /\ IF conversation_id \notin DOMAIN conversations
     THEN last' = Outcome("for_model", "ValueError", Some(conversation_id), 0)
     ELSE last' = Outcome("for_model", "ok", Some(conversation_id),
                          Len(ModelMessages(
                                conversations[conversation_id].messages)))
  /\ UNCHANGED <<conversations, uuid, now, SERVICES_AVAILABLE>>

-----------------------------------------------------------------------------
(* POST /api/chat *)

DemoResponse == <<"Demo", "mode">>
Replies == {[raises |-> TRUE, text |-> None, chat_supported |-> TRUE]}
           \cup {[raises |-> FALSE, text |-> r, chat_supported |-> TRUE] :
                   r \in Responses}

\* int(len(text.split()) / 0.75)
WordTokens(text) == (4 * Len(text)) \div 3

\* "user_message.token_count = user_tokens": the message object is the one in
\* the conversation's list
BackFill(conversation, message_id, token_count) ==
  [conversation EXCEPT !.messages =
     [i \in 1..Len(@) |->
        IF @[i].id = message_id THEN [@[i] EXCEPT !.token_count = token_count]
        ELSE @[i]]]

\* a check against the whole window: "total_tokens > max_tokens"
NeedsTrim_AtLimit(conversation) ==
  conversation.total_tokens > conversation.max_tokens
\* "conversation.total_tokens > conversation.max_tokens * 0.8"
NeedsTrim(conversation) ==
  5 * conversation.total_tokens > 4 * conversation.max_tokens

\* the "if conversation and conversation.total_tokens > max_tokens * 0.8" step
ContextCheck(conversation) ==
  IF NeedsTrim(conversation)
  THEN Trim(conversation, None)
  ELSE [conversation |-> conversation, trimmed_count |-> 0]

\* a handler that reads None as an empty answer ("response_text or ''")
Completes_NoneOk(reply) == ~reply.raises

\* Whether the generation step hands a text on: the collaborator raised, or
\* returned None and "response_text.split()" raises; either way the handler's
\* "except Exception" turns it into HTTP 500.
Completes(reply) == ~reply.raises /\ reply.text # None

ResponseText(reply) == IF reply.text = None THEN << >> ELSE Get(reply.text)

\* how the collaborator call itself went, whatever the handler makes of it
CollaboratorResult(reply) ==
  IF reply.raises \/ reply.text = None THEN "failed" ELSE "ok"

\* one call of the collaborator, as the handler makes it
ClientCall(call, messages, prompt, outcome) ==
  [call |-> call, messages |-> messages, prompt |-> prompt,
   outcome |-> outcome]

\* a handler that takes the single-prompt call for every history
Generation_AlwaysGenerate(conversation_history, message, reply) ==
  <<ClientCall("generate", << >>, message, CollaboratorResult(reply))>>
\* a handler that calls again after a failure
Generation_Retry(conversation_history, message, reply) ==
  IF CollaboratorResult(reply) = "failed"
  THEN <<ClientCall("chat", conversation_history, << >>, "failed"),
         ClientCall("chat", conversation_history, << >>, "failed")>>
  ELSE <<ClientCall("chat", conversation_history, << >>, "ok")>>
\* The calls of the generation step: generate(model, request.message) for a
\* history of one message, otherwise chat(model, conversation_history), and
\* after an AttributeError of chat generate(model, request.message). reply is
\* what the last of these calls hands back.
Generation(conversation_history, message, reply) ==
  IF Len(conversation_history) = 1
  THEN <<ClientCall("generate", << >>, message, CollaboratorResult(reply))>>
  ELSE IF reply.chat_supported
  THEN <<ClientCall("chat", conversation_history, << >>,
                    CollaboratorResult(reply))>>
  ELSE <<ClientCall("chat", conversation_history, << >>, "AttributeError"),
         ClientCall("generate", << >>, message, CollaboratorResult(reply))>>

\* the history a handler holds that asks for it once, before the check
History_BeforeCheck(before, after, trimmed_count) == ModelMessages(before)
\* conversation_history at the generation step: fetched before the check and
\* fetched again "if trimmed > 0"
History(before, after, trimmed_count) ==
  IF trimmed_count > 0 THEN ModelMessages(after) ELSE ModelMessages(before)

\* a get-or-create that also creates when the id given is not in the store
NeedsCreate_OrUnknown(conversation_id) ==
  conversation_id = None \/ Get(conversation_id) \notin DOMAIN conversations

\* a handler that reports the conversation's running total instead
EstimatedTokens_RunningTotal(conversation) == conversation.total_tokens
\* "total_tokens = sum(msg.token_count or 0 for msg in conversation.messages)",
\* returned as token_info["estimated_tokens"]
EstimatedTokens(conversation) == SumTokens(conversation.messages)

\* "if not conv_id:" / "request.conversation_id or create_conversation(...)"
NeedsCreate(conversation_id) == conversation_id = None

chat_completion(conversation_id, message, model, reply) ==
  /\ SERVICES_AVAILABLE
  /\ LET created == NeedsCreate(conversation_id)
         conv_id == IF created THEN uuid + 1 ELSE Get(conversation_id)
         store1 == IF created
                   THEN conversations @@
                        (conv_id :> NewConversation(conv_id, uuid + 2, model,
                                      Some("Chat with model"), None,
                                      DefaultMaxTokens, now))
                   ELSE conversations
         u1 == IF created THEN uuid + 2 ELSE uuid
     IN IF conv_id \notin DOMAIN store1
        THEN /\ last' = ChatOutcome("chat", "500", Some(conv_id), 0, 0,
                                    "not called")
             /\ UNCHANGED <<conversations, uuid>>
        ELSE LET user_id == u1 + 1
                 c2 == AppendMessage(store1[conv_id], user_id, "user", message,
                                     None, None, now)
                 r == ContextCheck(c2)
                 c3 == r.conversation
                 conversation_history ==
                   History(c2.messages, c3.messages, r.trimmed_count)
                 calls == Generation(conversation_history, message, reply)
             IN IF ~Completes(reply)
                THEN /\ user_id <= MaxUuid
                     /\ conversations' = [store1 EXCEPT ![conv_id] = c3]
                     /\ uuid' = user_id
                     /\ last' =
                          [ChatOutcome("chat", "500", Some(conv_id), 0,
                                       user_id, CollaboratorResult(reply))
                             EXCEPT !.trim_invoked = NeedsTrim(c2),
                                    !.trimmed = r.trimmed_count,
                                    !.history = conversation_history,
                                    !.calls = calls]
                ELSE LET response_text == ResponseText(reply)
                         response_tokens == WordTokens(response_text)
                         user_tokens == WordTokens(message)
                         c4 == AppendMessage(c3, user_id + 1, "assistant",
                                             response_text,
                                             Some(response_tokens), None, now)
                         c5 == BackFill(c4, user_id, Some(user_tokens))
                     IN /\ user_id + 1 <= MaxUuid
                        /\ conversations' = [store1 EXCEPT ![conv_id] = c5]
                        /\ uuid' = user_id + 1
                        /\ last' =
                             [ChatOutcome("chat", "200", Some(conv_id),
                                          user_id + 1, user_id,
                                          CollaboratorResult(reply))
                                EXCEPT !.estimated_tokens = EstimatedTokens(c5),
                                       !.trim_invoked = NeedsTrim(c2),
                                       !.trimmed = r.trimmed_count,
                                       !.history = conversation_history,
                                       !.calls = calls]
  /\ UNCHANGED <<now, SERVICES_AVAILABLE>>

\* the "if not SERVICES_AVAILABLE" branch of chat_completion
demo_chat_completion(conversation_id, message, model) ==
  /\ ~SERVICES_AVAILABLE
  /\ LET created == NeedsCreate(conversation_id)
         conv_id == IF created THEN uuid + 1 ELSE Get(conversation_id)
         store1 == IF created
                   THEN conversations @@
                        (conv_id :> NewConversation(conv_id, uuid + 2, model,
                                      Some("Demo Chat"), None,
                                      DefaultMaxTokens, now))
                   ELSE conversations
         u1 == IF created THEN uuid + 2 ELSE uuid
     IN IF conv_id \notin DOMAIN store1
        THEN /\ last' = ChatOutcome("chat", "500", Some(conv_id), 0, 0,
                                    "not called")
             /\ UNCHANGED <<conversations, uuid>>
        ELSE LET c2 == AppendMessage(store1[conv_id], u1 + 1, "user", message,
                                     None, None, now)
                 c3 == AppendMessage(c2, u1 + 2, "assistant", DemoResponse,
                                     Some(DemoTokens), None, now)
             IN /\ u1 + 2 <= MaxUuid
                /\ conversations' = [store1 EXCEPT ![conv_id] = c3]
                /\ uuid' = u1 + 2
                /\ last' = [ChatOutcome("chat", "200", Some(conv_id), u1 + 2,
                                        u1 + 1, "")
                               EXCEPT !.estimated_tokens = DemoTokens]
  /\ UNCHANGED <<now, SERVICES_AVAILABLE>>

-----------------------------------------------------------------------------
(* ModelConfigManager (config/model_manager.py)                             *)
(* A model id is the sequence of its characters.                            *)

Llama32 == <<"l", "l", "a", "m", "a", "3", ".", "2">>
Llama32_3b == Llama32 \o <<":", "3", "b">>
Mistral7b == <<"m", "i", "s", "t", "r", "a", "l", ":", "7", "b">>
Phi3 == <<"p", "h", "i", "3", ":", "3", ".", "8", "b">>
ColonLatest == <<":", "l", "a", "t", "e", "s", "t">>

CatalogIds == {Llama32_3b, Mistral7b}

ModelData(id, enabled) == [id |-> id, enabled |-> enabled]
ConfigData(available_models, default_model) ==
  [available_models |-> available_models, default_model |-> default_model]

\* _get_default_config
DefaultConfig == ConfigData(<<ModelData(Llama32_3b, TRUE)>>, Some(Llama32_3b))

ModelIdsOf(models) == {models[i].id : i \in 1..Len(models)}

\* get_model_by_id(model_id) is not None
HasModel(config, model_id) == model_id \in ModelIdsOf(config.available_models)

\* get_default_model: self._config_data.get('default_model', 'llama3.2:3b')
get_default_model(config) ==
  IF config.default_model = None THEN Llama32_3b ELSE Get(config.default_model)

\* set_default_model without its "if self.get_model_by_id(model_id)"
SetDefault_Unchecked(config, model_id) ==
  [config EXCEPT !.default_model = Some(model_id)]

\* set_default_model: the configuration it leaves in memory
SetDefault(config, model_id) ==
  IF HasModel(config, model_id)
  THEN [config EXCEPT !.default_model = Some(model_id)] ELSE config

\* _set_model_enabled: the first entry with that id gets the flag
SetEnabled(config, model_id, enabled) ==
  IF ~HasModel(config, model_id) THEN config
  ELSE LET first == CHOOSE i \in 1..Len(config.available_models) :
                      /\ config.available_models[i].id = model_id
                      /\ \A j \in 1..(i - 1) :
                           config.available_models[j].id # model_id
       IN [config EXCEPT !.available_models[first].enabled = enabled]

\* add_model without its "if self.get_model_by_id(model_config.id)"
AddModel_NoCheck(config, model) ==
  [config EXCEPT !.available_models = Append(@, model)]

\* add_model
AddModel(config, model) ==
  IF HasModel(config, model.id) THEN config
  ELSE [config EXCEPT !.available_models = Append(@, model)]

RECURSIVE WithoutId(_, _)
WithoutId(models, model_id) ==
  IF models = << >> THEN << >>
  ELSE IF Head(models).id # model_id
       THEN <<Head(models)>> \o WithoutId(Tail(models), model_id)
       ELSE WithoutId(Tail(models), model_id)

\* remove_model
RemoveModel(config, model_id) ==
  [config EXCEPT !.available_models = WithoutId(@, model_id)]

\* "self._config_data = None" in __init__: no configuration was read
NoConfigData == [none |-> TRUE]
\* a models.json that json.load rejects (JSONDecodeError)
Malformed == [malformed |-> TRUE]

\* open() raises FileNotFoundError, or json.load raises JSONDecodeError
ReadFails(file) == file = None \/ file = Some(Malformed)

\* load_config: what it leaves in _config_data and what it returns. The two
\* except branches "return self._get_default_config()" without assigning it.
LoadConfig(data, file) ==
  IF ReadFails(file)
  THEN [config_data |-> data, returned |-> DefaultConfig]
  ELSE [config_data |-> Get(file), returned |-> Get(file)]

\* "self._config_data.get(...)" on None raises AttributeError
Raises(op) ==
  /\ last' = Outcome(op, "AttributeError", None, 0)
  /\ UNCHANGED <<config_data, config_file>>

\* A catalog mutation followed by "return self.save_config()" when `changed`,
\* "return False" otherwise; save_ok is whether the file could be written.
Persist(op, config, changed, save_ok) ==
  /\ config_data' = config
  /\ config_file' = IF changed /\ save_ok THEN Some(config) ELSE config_file
  /\ last' = Outcome(op, IF changed /\ save_ok THEN "True" ELSE "False", None, 0)

set_default_model(model_id, save_ok) ==
  IF config_data = NoConfigData THEN Raises("set_default")
  ELSE Persist("set_default", SetDefault(config_data, model_id),
            HasModel(config_data, model_id), save_ok)

enable_model(model_id, save_ok) ==
  IF config_data = NoConfigData THEN Raises("enable")
  ELSE Persist("enable", SetEnabled(config_data, model_id, TRUE),
            HasModel(config_data, model_id), save_ok)

disable_model(model_id, save_ok) ==
  IF config_data = NoConfigData THEN Raises("disable")
  ELSE Persist("disable", SetEnabled(config_data, model_id, FALSE),
            HasModel(config_data, model_id), save_ok)

add_model(model, save_ok) ==
  IF config_data = NoConfigData THEN Raises("add_model")
  ELSE Persist("add_model", AddModel(config_data, model),
            ~HasModel(config_data, model.id), save_ok)

remove_model(model_id, save_ok) ==
  IF config_data = NoConfigData THEN Raises("remove_model")
  ELSE LET config == RemoveModel(config_data, model_id)
       IN Persist("remove_model", config,
                  Len(config.available_models) <
                    Len(config_data.available_models),
                  save_ok)

-----------------------------------------------------------------------------
(* POST /api/models/config/default, /enable and /disable (backend/main.py) *)

\* The status the caller gets for what the manager returned. The handler
\* raises HTTPException(404) for a False inside its own "try", and its
\* "except Exception" takes that exception, as it takes any other, and
\* raises HTTPException(500) in its place.
ConfigStatus(returned) == IF returned = "True" THEN "200" ELSE "500"

\* the three handlers: op names the route, config is what the manager's
\* method leaves in memory for a known id
PostConfig(op, model_id, config, save_ok) ==
  IF ~SERVICES_AVAILABLE
  THEN /\ last' = Outcome(op, "503", None, 0)
       /\ UNCHANGED <<config_data, config_file>>
  ELSE IF model_id = None
  THEN /\ last' = Outcome(op, "400", None, 0)
       /\ UNCHANGED <<config_data, config_file>>
  ELSE IF config_data = NoConfigData
  THEN /\ last' = Outcome(op, ConfigStatus("AttributeError"), None, 0)
       /\ UNCHANGED <<config_data, config_file>>
  ELSE LET changed == HasModel(config_data, Get(model_id))
       IN /\ config_data' = IF changed THEN config ELSE config_data
          /\ config_file' = IF changed /\ save_ok THEN Some(config)
                            ELSE config_file
          /\ last' = Outcome(op, ConfigStatus(IF changed /\ save_ok
                                              THEN "True" ELSE "False"),
                             None, 0)

post_config_default(model_id, save_ok) ==
  PostConfig("post_default", model_id,
             SetDefault(config_data, Get(model_id)), save_ok)

post_config_enable(model_id, save_ok) ==
  PostConfig("post_enable", model_id,
             SetEnabled(config_data, Get(model_id), TRUE), save_ok)

post_config_disable(model_id, save_ok) ==
  PostConfig("post_disable", model_id,
             SetEnabled(config_data, Get(model_id), FALSE), save_ok)

-----------------------------------------------------------------------------
(* Availability matching: is_model_available in health_check and in         *)
(* get_model_configuration (backend/main.py); the two copies are identical. *)

In(x, seq) == \E i \in 1..Len(seq) : seq[i] = x

\* str.startswith
StartsWith(s, prefix) ==
  Len(s) >= Len(prefix) /\ SubSeq(s, 1, Len(prefix)) = prefix

\* model_id.split(":")[0]
RECURSIVE BeforeColon(_)
BeforeColon(s) ==
  IF s = << >> \/ Head(s) = ":" THEN << >>
  ELSE <<Head(s)>> \o BeforeColon(Tail(s))

\* the loop with startswith(model_id) for startswith(f"{model_id}:")
RECURSIVE AvailableLoop_NoColon(_, _)
AvailableLoop_NoColon(model_id, ollama_names) ==
  IF ollama_names = << >> THEN FALSE
  ELSE LET ollama_name == Head(ollama_names)
       IN IF StartsWith(ollama_name, model_id) THEN TRUE
          ELSE IF In(":", model_id)
                  /\ ollama_name = BeforeColon(model_id) \o ColonLatest
               THEN TRUE
               ELSE AvailableLoop_NoColon(model_id, Tail(ollama_names))

\* the "for ollama_name in ollama_names" loop
RECURSIVE AvailableLoop(_, _)
AvailableLoop(model_id, ollama_names) ==
  IF ollama_names = << >> THEN FALSE
  ELSE LET ollama_name == Head(ollama_names)
       IN IF StartsWith(ollama_name, model_id \o <<":">>) THEN TRUE
          ELSE IF In(":", model_id)
                  /\ ollama_name = BeforeColon(model_id) \o ColonLatest
               THEN TRUE
               ELSE AvailableLoop(model_id, Tail(ollama_names))

is_model_available(model_id, ollama_names) ==
  IF In(model_id, ollama_names) THEN TRUE
  ELSE IF In(model_id \o ColonLatest, ollama_names) THEN TRUE
       ELSE AvailableLoop(model_id, ollama_names)

\* export_frontend_config: the ids of the enabled models
EnabledIds(config) ==
  {config.available_models[i].id :
     i \in {j \in 1..Len(config.available_models) :
              config.available_models[j].enabled}}

Availability(op, listed, ids) == [op |-> op, listed |-> listed, ids |-> ids]

\* GET /api/models/config: every enabled model, marked available or not
get_model_configuration ==
  /\ SERVICES_AVAILABLE
  /\ available' =
       Availability("config", EnabledIds(config_data),
         {id \in EnabledIds(config_data) :
            is_model_available(id, ollama_model_names)})
  /\ last' = Outcome("models_config", "200", None, 0)
  /\ UNCHANGED <<storeVars, catalogVars, ollama_model_names, checkVars,
               turnVars>>

\* GET /api/health: the configured ids that are available
health_check ==
  /\ SERVICES_AVAILABLE
  /\ available' =
       Availability("health", EnabledIds(config_data),
         {id \in EnabledIds(config_data) :
            is_model_available(id, ollama_model_names)})
  /\ last' = Outcome("health", "200", None, 0)
  /\ UNCHANGED <<storeVars, catalogVars, ollama_model_names, checkVars,
               turnVars>>

-----------------------------------------------------------------------------
(* TokenManager (examples/token_management.py): the pre-flight size check.
   Strings are sequences of one-character strings. *)

UpperCase == <<"A", "B", "C", "D", "E", "F", "G", "H", "I", "J", "K", "L", "M", "N", "O", "P", "Q", "R", "S", "T", "U", "V", "W", "X", "Y", "Z">>
LowerCase == <<"a", "b", "c", "d", "e", "f", "g", "h", "i", "j", "k", "l", "m", "n", "o", "p", "q", "r", "s", "t", "u", "v", "w", "x", "y", "z">>
Digits == <<"0", "1", "2", "3", "4", "5", "6", "7", "8", "9">>
Whitespace == {" ", "\t"}

\* str.lower on one character, then on a string
LowerChar(c) ==
  IF \E i \in 1..Len(UpperCase) : UpperCase[i] = c
  THEN LowerCase[CHOOSE i \in 1..Len(UpperCase) : UpperCase[i] = c]
  ELSE c
Lower(s) == [i \in 1..Len(s) |-> LowerChar(s[i])]

\* `pattern in s` on strings
Contains(pattern, s) ==
  \E i \in 1..(Len(s) - Len(pattern) + 1) :
    SubSeq(s, i, i + Len(pattern) - 1) = pattern

\* str.split('\n')
RECURSIVE SplitLines(_)
SplitLines(s) ==
  IF \E i \in 1..Len(s) : s[i] = "\n"
  THEN LET i == CHOOSE j \in 1..Len(s) :
                  s[j] = "\n" /\ \A k \in 1..(j - 1) : s[k] # "\n"
       IN <<SubSeq(s, 1, i - 1)>> \o SplitLines(SubSeq(s, i + 1, Len(s)))
  ELSE <<s>>

\* line.split()[-1]: the last whitespace-separated word; the empty string
\* stands for the IndexError of a line without words
LastWord(line) ==
  LET ends == {i \in 1..Len(line) : line[i] \notin Whitespace}
  IN IF ends = {} THEN << >>
     ELSE LET e == CHOOSE i \in ends : \A j \in ends : j <= i
              b == CHOOSE i \in 1..e :
                     /\ \A j \in i..e : line[j] \notin Whitespace
                     /\ (i = 1 \/ line[i - 1] \in Whitespace)
          IN SubSeq(line, b, e)

DigitValue(c) == (CHOOSE i \in 1..Len(Digits) : Digits[i] = c) - 1
IsDigit(c) == \E i \in 1..Len(Digits) : Digits[i] = c

RECURSIVE DigitsValue(_, _)
DigitsValue(w, acc) ==
  IF w = << >> THEN acc
  ELSE IF Head(w) = "_" THEN DigitsValue(Tail(w), acc)
  ELSE DigitsValue(Tail(w), 10 * acc + DigitValue(Head(w)))

\* int(word): an optional sign, then digits that single underscores may
\* separate; None stands for the ValueError
ParseInt(word) ==
  LET signed == word # << >> /\ Head(word) \in {"+", "-"}
      body == IF signed THEN Tail(word) ELSE word
      wellFormed ==
        /\ body # << >>
        /\ \A i \in 1..Len(body) : IsDigit(body[i]) \/ body[i] = "_"
        /\ IsDigit(body[1]) /\ IsDigit(body[Len(body)])
        /\ \A i \in 1..(Len(body) - 1) : ~(body[i] = "_" /\ body[i + 1] = "_")
  IN IF ~wellFormed THEN None
     ELSE IF signed /\ Head(word) = "-" THEN Some(0 - DigitsValue(body, 0))
     ELSE Some(DigitsValue(body, 0))

NumCtx == <<"n", "u", "m", "_", "c", "t", "x">>
CodeLlama7b == <<"c", "o", "d", "e", "l", "l", "a", "m", "a", ":", "7", "b">>
DefaultContextLimit == 4096
CharsPerToken == 4

\* TokenManager.model_limits, in insertion order
model_limits ==
  << <<Llama32_3b, 8192>>,
     <<Llama32 \o <<":", "1", "b">>, 8192>>,
     <<<<"l", "l", "a", "m", "a", "3", ".", "1", ":", "8", "b">>, 8192>>,
     <<<<"l", "l", "a", "m", "a", "3", ".", "1", ":", "7", "0", "b">>, 8192>>,
     <<CodeLlama7b, 16384>>,
     <<Mistral7b, 8192>>,
     <<Phi3, 4096>> >>

estimate_tokens_Rounded(text) == (Len(text) + 2) \div CharsPerToken
\* TokenManager.estimate_tokens: len(text) // 4
estimate_tokens(text) == Len(text) \div CharsPerToken

\* the loop over the modelfile's lines: the first line that contains num_ctx
\* and whose last word is an integer decides
RECURSIVE NumCtxLoop(_)
NumCtxLoop(lines) ==
  IF lines = << >> THEN None
  ELSE IF Contains(NumCtx, Head(lines)) /\ ParseInt(LastWord(Head(lines))) # None
  THEN ParseInt(LastWord(Head(lines)))
  ELSE NumCtxLoop(Tail(lines))

\* the loop over model_limits: the first pattern found in the lower-cased name
RECURSIVE LimitsLoop(_, _)
LimitsLoop(limits, model_name) ==
  IF limits = << >> THEN DefaultContextLimit
  ELSE IF Contains(Head(limits)[1], Lower(model_name)) THEN Head(limits)[2]
  ELSE LimitsLoop(Tail(limits), model_name)

\* TokenManager.get_context_limit; model_info is the modelfile the daemon
\* reports for the model: None when the request fails or the answer has none
get_context_limit(model_name, model_info) ==
  LET fromDaemon == IF model_info = None THEN None
                    ELSE NumCtxLoop(SplitLines(Get(model_info)))
  IN IF fromDaemon # None THEN Get(fromDaemon)
     ELSE LimitsLoop(model_limits, model_name)

\* estimated_tokens < context_limit * 0.8; the double product decides as the
\* exact comparison does for every limit from -1000 to 3,000,000
Fits(estimated_tokens, context_limit) ==
  5 * estimated_tokens < 4 * context_limit

NoCheck == [op |-> "none"]

\* what check_prompt_size hands back; usage_percent as the fraction
\* <<numerator, denominator>>, a zero limit raises ZeroDivisionError
PromptCheck(model_name, prompt, model_info) ==
  LET estimated_tokens == estimate_tokens(prompt)
      context_limit == get_context_limit(model_name, model_info)
  IN [op |-> "check", model_name |-> model_name, prompt_len |-> Len(prompt),
      model_info |-> model_info,
      raises |-> context_limit = 0,
      estimated_tokens |-> estimated_tokens,
      context_limit |-> context_limit,
      fits |-> Fits(estimated_tokens, context_limit),
      usage_percent |-> <<estimated_tokens * 100, context_limit>>,
      tokens_remaining |-> context_limit - estimated_tokens]

\* TokenManager.check_prompt_size
check_prompt_size(model_name, prompt, model_info) ==
  /\ token_check' = PromptCheck(model_name, prompt, model_info)
  /\ UNCHANGED <<storeVars, last, catalogVars, availVars, turnVars>>

-----------------------------------------------------------------------------
(* POST /api/chat as the event loop runs it: every request is a coroutine of
   chat_completion, the loop executes one coroutine at a time and takes up
   another one only when the running one awaits or ends. The segments are
   the handler's calls on the conversation store, in program order. *)

MaxTurns == 2
TinyMaxTokens == 1

TurnDone == {"completed", "failed"}
\* positions after the first mutation of the conversation and before the end
TurnMutating == {"added", "checked", "generated"}

\* a handler that awaits the collaborator's answer (an async HTTP client)
Awaits_Collaborator(pc) == pc = "checked"
\* Whether the coroutine is suspended at an await when it stands at pc:
\* chat_completion holds no await expression, and OllamaClient.generate and
\* chat are blocking calls
Awaits(pc) == FALSE

Scheduled(r) ==
  /\ r \in DOMAIN turns
  /\ running \in {None, Some(r)}

\* the coroutine r moved to pc: it keeps the loop unless it ended or awaits
Resume(r, turn) ==
  /\ turns' = [turns EXCEPT ![r] = turn]
  /\ running' = IF turn.pc \in TurnDone \/ Awaits(turn.pc)
                THEN None ELSE Some(r)

\* a request arrives: uvicorn queues a coroutine for it
receive_request(conversation_id, message) ==
  /\ SERVICES_AVAILABLE
  /\ Len(turns) < MaxTurns
  /\ turns' = Append(turns, [pc |-> "received",
                             conversation_id |-> conversation_id,
                             message |-> message, conv_id |-> 0,
                             user_id |-> 0, response_text |-> << >>])
  /\ UNCHANGED <<storeVars, last, running>>

\* "conv_id = request.conversation_id ... add_message(conv_id, 'user', ...)"
turn_add_user(r) ==
  /\ Scheduled(r)
  /\ turns[r].pc = "received"
  /\ LET turn == turns[r]
         created == NeedsCreate(turn.conversation_id)
         conv_id == IF created THEN uuid + 1 ELSE Get(turn.conversation_id)
         store1 == IF created
                   THEN conversations @@
                        (conv_id :> NewConversation(conv_id, uuid + 2,
                                      "llama3.2:3b", Some("Chat with model"),
                                      None, DefaultMaxTokens, now))
                   ELSE conversations
         u1 == IF created THEN uuid + 2 ELSE uuid
     IN IF conv_id \notin DOMAIN store1
        THEN /\ Resume(r, [turn EXCEPT !.pc = "failed", !.conv_id = conv_id])
             /\ last' = ChatOutcome("chat", "500", Some(conv_id), 0, 0,
                                    "not called")
             /\ UNCHANGED <<conversations, uuid>>
        ELSE /\ u1 + 1 <= MaxUuid
             /\ conversations' =
                  [store1 EXCEPT ![conv_id] =
                     AppendMessage(@, u1 + 1, "user", turn.message, None, None,
                                   now)]
             /\ uuid' = u1 + 1
             /\ Resume(r, [turn EXCEPT !.pc = "added", !.conv_id = conv_id,
                                       !.user_id = u1 + 1])
             /\ UNCHANGED last
  /\ UNCHANGED <<now, SERVICES_AVAILABLE>>

\* "conversation = get_conversation(conv_id); if conversation and ... trim"
turn_context_check(r) ==
  /\ Scheduled(r)
  /\ turns[r].pc = "added"
  /\ conversations' =
       [conversations EXCEPT ![turns[r].conv_id] = ContextCheck(@).conversation]
  /\ Resume(r, [turns[r] EXCEPT !.pc = "checked"])
  /\ UNCHANGED <<uuid, now, SERVICES_AVAILABLE, last>>

\* "response_text = ollama_client.generate(...)" or chat(...), and
\* "word_count = len(response_text.split())"
turn_generate(r, reply) ==
  /\ Scheduled(r)
  /\ turns[r].pc = "checked"
  /\ IF Completes(reply)
     THEN /\ Resume(r, [turns[r] EXCEPT !.pc = "generated",
                                        !.response_text = ResponseText(reply)])
          /\ UNCHANGED last
     ELSE /\ Resume(r, [turns[r] EXCEPT !.pc = "failed"])
          /\ last' = ChatOutcome("chat", "500", Some(turns[r].conv_id), 0,
                                 turns[r].user_id, CollaboratorResult(reply))
  /\ UNCHANGED <<storeVars>>

\* "add_message(conv_id, 'assistant', ...); user_message.token_count = ..."
\* and the response
turn_complete(r) ==
  /\ Scheduled(r)
  /\ turns[r].pc = "generated"
  /\ uuid + 1 <= MaxUuid
  /\ LET turn == turns[r]
         c4 == AppendMessage(conversations[turn.conv_id], uuid + 1, "assistant",
                             turn.response_text,
                             Some(WordTokens(turn.response_text)), None, now)
         c5 == BackFill(c4, turn.user_id, Some(WordTokens(turn.message)))
     IN /\ conversations' = [conversations EXCEPT ![turn.conv_id] = c5]
        /\ uuid' = uuid + 1
        /\ last' = [ChatOutcome("chat", "200", Some(turn.conv_id), uuid + 1,
                                turn.user_id, "ok")
                      EXCEPT !.estimated_tokens = EstimatedTokens(c5)]
  /\ Resume(r, [turns[r] EXCEPT !.pc = "completed"])
  /\ UNCHANGED <<now, SERVICES_AVAILABLE>>

-----------------------------------------------------------------------------
(* Specification of the conversation store and the chat turn *)

InitCatalogDefault ==
  /\ config_data = DefaultConfig
  /\ config_file = Some(DefaultConfig)

InitAvailNone ==
  /\ ollama_model_names = << >>
  /\ available = Availability("none", {}, {})
  /\ token_check = NoCheck
  /\ turns = << >>
  /\ running = None

Init ==
  /\ InitStore
  /\ SERVICES_AVAILABLE = TRUE
  /\ InitCatalogDefault
  /\ InitAvailNone

Create ==
  /\ \E model_id \in ModelIds, title \in TitleInputs,
        system_prompt \in PromptInputs, max_tokens \in MaxTokensInputs :
       create_conversation(model_id, title, system_prompt, max_tokens)
  /\ UNCHANGED <<catalogVars, availVars, checkVars, turnVars>>

AddMessage ==
  /\ \E conversation_id \in KnownIds, role \in AddRoles, content \in Texts,
        token_count \in TokenCountInputs :
       add_message(conversation_id, role, content, token_count, None)
  /\ UNCHANGED <<catalogVars, availVars, checkVars, turnVars>>

\* add_message with any role and any count
AddAnyMessage ==
  /\ \E conversation_id \in KnownIds, role \in Roles, content \in Texts,
        token_count \in AnyTokenCountInputs :
       add_message(conversation_id, role, content, token_count, None)
  /\ UNCHANGED <<catalogVars, availVars, checkVars, turnVars>>

TrimConversation ==
  /\ \E conversation_id \in KnownIds, target_tokens \in TargetInputs :
       trim_conversation(conversation_id, target_tokens)
  /\ UNCHANGED <<catalogVars, availVars, checkVars, turnVars>>

DeleteConversation ==
  /\ \E conversation_id \in KnownIds : delete_conversation(conversation_id)
  /\ UNCHANGED <<catalogVars, availVars, checkVars, turnVars>>

UpdateTitle ==
  /\ \E conversation_id \in KnownIds :
       update_conversation_title(conversation_id, "T")
  /\ UNCHANGED <<catalogVars, availVars, checkVars, turnVars>>

ExportImport ==
  /\ \E conversation_id \in KnownIds, fresh \in BOOLEAN :
       export_import(conversation_id, fresh)
  /\ UNCHANGED <<catalogVars, availVars, checkVars, turnVars>>

ChatCompletion ==
  /\ \E conversation_id \in RequestIds, message \in ChatMessages,
        model \in ModelIds, reply \in Replies :
       chat_completion(conversation_id, message, model, reply)
  /\ UNCHANGED <<catalogVars, availVars, checkVars, turnVars>>

DemoChatCompletion ==
  /\ \E conversation_id \in RequestIds, message \in ChatMessages,
        model \in ModelIds :
       demo_chat_completion(conversation_id, message, model)
  /\ UNCHANGED <<catalogVars, availVars, checkVars, turnVars>>

Tick == tick /\ UNCHANGED <<catalogVars, availVars, checkVars, turnVars>>

\* add_message of a user message, as the running clock sees it
AddUserMessage ==
  /\ \E conversation_id \in KnownIds, content \in Texts,
        token_count \in TokenCountInputs :
       add_message(conversation_id, "user", content, token_count, None)
  /\ UNCHANGED <<catalogVars, availVars, checkVars, turnVars>>

Next ==
  \/ Create
  \/ AddMessage
  \/ TrimConversation
  \/ DeleteConversation
  \/ ExportImport
  \/ ChatCompletion

Spec == Init /\ [][Next]_vars

(* Demo mode (the services could not be imported): create, add_message and   *)
(* the demo branch of the chat turn                                          *)
InitDemo ==
  /\ InitStore
  /\ SERVICES_AVAILABLE = FALSE
  /\ InitCatalogDefault
  /\ InitAvailNone

NextAdd ==
  \/ Create
  \/ AddAnyMessage
  \/ DemoChatCompletion

SpecAdd == InitDemo /\ [][NextAdd]_vars

(* The store under a running clock: timestamps, export and import *)
NextClock ==
  \/ Tick
  \/ Create
  \/ AddUserMessage
  \/ UpdateTitle
  \/ ExportImport

SpecClock == Init /\ [][NextClock]_vars

-----------------------------------------------------------------------------
(* Specification of the model catalog *)

RECURSIVE DistinctSeqs(_, _)
\* the sequences of at most n distinct elements of S
DistinctSeqs(S, n) ==
  IF n = 0 THEN {<< >>}
  ELSE {<< >>} \cup
       UNION {{<<x>> \o t : t \in DistinctSeqs(S \ {x}, n - 1)} : x \in S}

\* catalogs as load_config reads them: distinct ids, the default among them
InitConfigs ==
  {ConfigData([i \in 1..Len(ids) |-> ModelData(ids[i], TRUE)], Some(d)) :
     ids \in DistinctSeqs(CatalogIds, 2) \ {<< >>}, d \in CatalogIds}

InitCatalog ==
  /\ InitStore
  /\ SERVICES_AVAILABLE = TRUE
  /\ InitAvailNone
  /\ config_data \in {c \in InitConfigs : HasModel(c, Get(c.default_model))}
  /\ config_file = Some(config_data)

SetDefaultModel ==
  /\ \E model_id \in CatalogIds, save_ok \in BOOLEAN :
       set_default_model(model_id, save_ok)
  /\ UNCHANGED <<storeVars, availVars, checkVars, turnVars>>

EnableModel ==
  /\ \E model_id \in CatalogIds, save_ok \in BOOLEAN :
       enable_model(model_id, save_ok)
  /\ UNCHANGED <<storeVars, availVars, checkVars, turnVars>>

DisableModel ==
  /\ \E model_id \in CatalogIds, save_ok \in BOOLEAN :
       disable_model(model_id, save_ok)
  /\ UNCHANGED <<storeVars, availVars, checkVars, turnVars>>

AddModelConfig ==
  /\ \E model_id \in CatalogIds, enabled \in BOOLEAN, save_ok \in BOOLEAN :
       add_model(ModelData(model_id, enabled), save_ok)
  /\ UNCHANGED <<storeVars, availVars, checkVars, turnVars>>

RemoveModelConfig ==
  /\ \E model_id \in CatalogIds, save_ok \in BOOLEAN :
       remove_model(model_id, save_ok)
  /\ UNCHANGED <<storeVars, availVars, checkVars, turnVars>>

NextCatalog ==
  \/ SetDefaultModel
  \/ EnableModel
  \/ DisableModel
  \/ AddModelConfig
  \/ RemoveModelConfig

SpecCatalog == InitCatalog /\ [][NextCatalog]_vars

-----------------------------------------------------------------------------
(* Specification of the availability check *)

MaxNames == 2

QueryIds ==
  {<<"a">>, <<"A">>, <<"a", ":", "b">>, <<"a", ":", "b", ":", "c">>,
   Llama32, Llama32_3b, Mistral7b}

DaemonNames ==
  {<<"a">>, <<"a", ":", "b">>, <<"a", ":", "c">>, <<"a", "b">>,
   <<"a">> \o ColonLatest, <<"a", ":", "b">> \o ColonLatest,
   <<"a", "b">> \o ColonLatest, <<"A">> \o ColonLatest,
   Llama32 \o ColonLatest, Llama32_3b \o ColonLatest, Phi3}

RECURSIVE SeqsUpTo(_, _)
\* the sequences of at most n elements of S
SeqsUpTo(S, n) ==
  IF n = 0 THEN {<< >>}
  ELSE {<< >>} \cup {<<x>> \o t : x \in S, t \in SeqsUpTo(S, n - 1)}

InitAvail ==
  /\ InitStore
  /\ SERVICES_AVAILABLE = TRUE
  /\ \E id \in QueryIds, enabled \in BOOLEAN :
       config_data = ConfigData(<<ModelData(id, enabled)>>, Some(id))
  /\ config_file = Some(config_data)
  /\ ollama_model_names \in SeqsUpTo(DaemonNames, MaxNames)
  /\ available = Availability("none", {}, {})
  /\ token_check = NoCheck
  /\ turns = << >>
  /\ running = None

NextAvail ==
  \/ get_model_configuration
  \/ health_check

SpecAvail == InitAvail /\ [][NextAvail]_vars

-----------------------------------------------------------------------------
(* Specification of the catalog as the constructor leaves it, whatever the  *)
(* state of models.json, and of its queries                                 *)

\* a query of the catalog: it raises on "_config_data is None", otherwise the
\* ids it lists and the ids it answers with are what its caller sees
Query(op, listed, ids) ==
  /\ IF config_data = NoConfigData
     THEN /\ last' = Outcome(op, "AttributeError", None, 0)
          /\ available' = Availability(op, {}, {})
     ELSE /\ last' = Outcome(op, "ok", None, 0)
          /\ available' = Availability(op, listed, ids)
  /\ UNCHANGED <<storeVars, catalogVars, ollama_model_names, checkVars,
               turnVars>>

\* load_config called again on the constructed manager
load_config ==
  /\ config_data' = LoadConfig(config_data, config_file).config_data
  /\ last' = Outcome("load_config",
                     IF ReadFails(config_file) THEN "default" ELSE "ok", None, 0)
  /\ UNCHANGED <<storeVars, config_file, availVars, checkVars, turnVars>>

get_enabled_models == Query("get_enabled_models", EnabledIds(config_data), {})

get_model_by_id(model_id) ==
  Query("get_model_by_id", {},
        IF HasModel(config_data, model_id) THEN {model_id} ELSE {})

GetDefaultModel ==
  Query("get_default_model", {}, {get_default_model(config_data)})

export_frontend_config ==
  Query("export_frontend_config", EnabledIds(config_data),
        {get_default_model(config_data)})

GetModelById == \E model_id \in CatalogIds : get_model_by_id(model_id)

\* the content of models.json when the manager is constructed
FileInputs == {None, Some(Malformed)} \cup {Some(c) : c \in InitConfigs}

\* __init__: "self._config_data = None" and then "self.load_config()"
InitLoad ==
  /\ InitStore
  /\ SERVICES_AVAILABLE = TRUE
  /\ InitAvailNone
  /\ config_file \in FileInputs
  /\ config_data = LoadConfig(NoConfigData, config_file).config_data

NextLoad ==
  \/ load_config
  \/ get_enabled_models
  \/ GetModelById
  \/ GetDefaultModel
  \/ export_frontend_config
  \/ SetDefaultModel
  \/ EnableModel
  \/ DisableModel
  \/ AddModelConfig
  \/ RemoveModelConfig

SpecLoad == InitLoad /\ [][NextLoad]_vars

-----------------------------------------------------------------------------
(* Specification of trim_conversation on its own: one conversation, built   *)
(* by create_conversation, add_message calls and at most one back-fill of   *)
(* a token_count, then trimmed                                              *)

MaxTrimLen == 4

\* (role, token_count) of the add_message calls
AddInputs == {"system", "user"} \X {None, Some(1), Some(MaxTok)}

\* add_message for each input in turn, message ids counting from next_id
RECURSIVE AddAll(_, _, _)
AddAll(conversation, inputs, next_id) ==
  IF inputs = << >> THEN conversation
  ELSE AddAll(AppendMessage(conversation, next_id, Head(inputs)[1], <<"Hi">>,
                            Head(inputs)[2], None, 0),
              Tail(inputs), next_id + 1)

\* create_conversation, the add_message calls, and token_count set afterwards
\* on the message at position backfill when that is a user message added
\* without a count, as a chat turn does
BuiltConversation(max_tokens, inputs, backfill) ==
  LET created == NewConversation(1, 2, "llama3.2:3b", None, None, max_tokens, 0)
      added == AddAll(created, inputs, 3)
  IN IF /\ backfill \in 1..Len(added.messages)
        /\ added.messages[backfill].role = "user"
        /\ added.messages[backfill].token_count = None
     THEN BackFill(added, added.messages[backfill].id, Some(MaxTok))
     ELSE added

\* max_tokens 100 and ten messages of 15 tokens each: total_tokens 150
ExampleConversation ==
  BuiltConversation(100, [i \in 1..10 |-> <<"user", Some(15)>>], 0)

TrimInputs ==
  {ExampleConversation} \cup
  {BuiltConversation(SmallMaxTokens, inputs, backfill) :
     inputs \in SeqsUpTo(AddInputs, MaxTrimLen),
     backfill \in 0..(MaxTrimLen + 1)}

InitTrim ==
  /\ \E conversation \in TrimInputs :
       /\ conversations = (conversation.id :> conversation)
       /\ uuid = 1 + Len(conversation.messages)
  /\ now = 0
  /\ last = Outcome("init", "ok", None, 0)
  /\ SERVICES_AVAILABLE = TRUE
  /\ InitCatalogDefault
  /\ InitAvailNone

NextTrim == TrimConversation

SpecTrim == InitTrim /\ [][NextTrim]_vars

-----------------------------------------------------------------------------
(* Specification of the store called with any id: the ids of the            *)
(* conversations in the store, the id of the first conversation created     *)
(* (in the store, or deleted from it), and an id that was never handed out  *)

AnyIds == KnownIds \cup {1, uuid + 1}
AnyRequestIds == {None} \cup {Some(c) : c \in AnyIds}
AnyTargets == {None, Some(0)}
AnyReplies == {[raises |-> TRUE, text |-> None, chat_supported |-> TRUE],
               [raises |-> FALSE, text |-> Some(<<"Hello">>),
                chat_supported |-> TRUE]}

CreateDefault ==
  /\ create_conversation("llama3.2:3b", None, None, SmallMaxTokens)
  /\ UNCHANGED <<catalogVars, availVars, checkVars, turnVars>>

AddMessageAny ==
  /\ \E conversation_id \in AnyIds :
       add_message(conversation_id, "user", <<"Hi">>, Some(MaxTok), None)
  /\ UNCHANGED <<catalogVars, availVars, checkVars, turnVars>>

TrimAny ==
  /\ \E conversation_id \in AnyIds, target_tokens \in AnyTargets :
       trim_conversation(conversation_id, target_tokens)
  /\ UNCHANGED <<catalogVars, availVars, checkVars, turnVars>>

DeleteAny ==
  /\ \E conversation_id \in AnyIds : delete_conversation(conversation_id)
  /\ UNCHANGED <<catalogVars, availVars, checkVars, turnVars>>

RenameAny ==
  /\ \E conversation_id \in AnyIds :
       update_conversation_title(conversation_id, "T")
  /\ UNCHANGED <<catalogVars, availVars, checkVars, turnVars>>

ExportAny ==
  /\ \E conversation_id \in AnyIds : export_import(conversation_id, FALSE)
  /\ UNCHANGED <<catalogVars, availVars, checkVars, turnVars>>

GetAny ==
  /\ \E conversation_id \in AnyIds : get_conversation(conversation_id)
  /\ UNCHANGED <<catalogVars, availVars, checkVars, turnVars>>

ForModelAny ==
  /\ \E conversation_id \in AnyIds :
       get_conversation_for_model(conversation_id)
  /\ UNCHANGED <<catalogVars, availVars, checkVars, turnVars>>

ChatAny ==
  /\ \E conversation_id \in AnyRequestIds, reply \in AnyReplies :
       chat_completion(conversation_id, <<"Hi">>, "llama3.2:3b", reply)
  /\ UNCHANGED <<catalogVars, availVars, checkVars, turnVars>>

NextIds ==
  \/ CreateDefault
  \/ AddMessageAny
  \/ TrimAny
  \/ DeleteAny
  \/ RenameAny
  \/ ExportAny
  \/ GetAny
  \/ ForModelAny
  \/ ChatAny

SpecIds == Init /\ [][NextIds]_vars

-----------------------------------------------------------------------------
(* Specification of the conversation timestamps: the store under a running  *)
(* clock, with trims                                                        *)

NextTime ==
  \/ Tick
  \/ CreateDefault
  \/ AddUserMessage
  \/ UpdateTitle
  \/ TrimConversation

SpecTime == Init /\ [][NextTime]_vars

-----------------------------------------------------------------------------
(* The chat turn in both modes, on conversations that other calls filled *)
InitChat ==
  /\ InitStore
  /\ SERVICES_AVAILABLE \in BOOLEAN
  /\ InitCatalogDefault
  /\ InitAvailNone

NextChat ==
  \/ CreateDefault
  \/ AddUserMessage
  \/ ChatCompletion
  \/ DemoChatCompletion

SpecChat == InitChat /\ [][NextChat]_vars

-----------------------------------------------------------------------------
(* Specification of chat turns in flight together on one event loop *)

\* POST /api/conversations with a small max_tokens, so that the second turn
\* on the conversation trims; a handler like any other, run when the loop
\* is free
CreateTiny ==
  /\ running = None
  /\ create_conversation("llama3.2:3b", None, None, TinyMaxTokens)
  /\ UNCHANGED <<catalogVars, availVars, checkVars, turnVars>>

ReceiveRequest ==
  /\ \E conversation_id \in RequestIds : receive_request(conversation_id, <<"Hi">>)
  /\ UNCHANGED <<catalogVars, availVars, checkVars>>

TurnAddUser ==
  /\ \E r \in DOMAIN turns : turn_add_user(r)
  /\ UNCHANGED <<catalogVars, availVars, checkVars>>

TurnContextCheck ==
  /\ \E r \in DOMAIN turns : turn_context_check(r)
  /\ UNCHANGED <<catalogVars, availVars, checkVars>>

TurnGenerate ==
  /\ \E r \in DOMAIN turns, reply \in AnyReplies : turn_generate(r, reply)
  /\ UNCHANGED <<catalogVars, availVars, checkVars>>

TurnComplete ==
  /\ \E r \in DOMAIN turns : turn_complete(r)
  /\ UNCHANGED <<catalogVars, availVars, checkVars>>

NextTurns ==
  \/ CreateTiny
  \/ ReceiveRequest
  \/ TurnAddUser
  \/ TurnContextCheck
  \/ TurnGenerate
  \/ TurnComplete

SpecTurns == Init /\ [][NextTurns]_vars

-----------------------------------------------------------------------------
(* Specification of the generation step: conversations with and without a
   system message, a collaborator with and without the chat call *)

\* what another store exported: a conversation without messages, under an
\* id that this store's uuid4 never hands out
ForeignConversation ==
  Conversation_to_dict(
    Conversation(0, <<"Imported">>, "llama3.2:3b", << >>, 0, 0, 0,
                 SmallMaxTokens, None))

ClientReplies ==
  {[raises |-> r[1], text |-> r[2], chat_supported |-> supported] :
     r \in {<<TRUE, None>>, <<FALSE, None>>, <<FALSE, Some(<<"Hello">>)>>},
     supported \in BOOLEAN}

ImportForeign ==
  /\ import_conversation(ForeignConversation)
  /\ UNCHANGED <<catalogVars, availVars, checkVars, turnVars>>

ChatWithClient ==
  /\ \E conversation_id \in RequestIds, reply \in ClientReplies :
       chat_completion(conversation_id, <<"Hi">>, "llama3.2:3b", reply)
  /\ UNCHANGED <<catalogVars, availVars, checkVars, turnVars>>

NextGen ==
  \/ Create
  \/ AddMessage
  \/ ImportForeign
  \/ ChatWithClient

SpecGen == Init /\ [][NextGen]_vars

-----------------------------------------------------------------------------
(* Specification of the catalog behind its HTTP handlers *)

\* request["model_id"]: absent, an id of the catalog, or another id
PostedIds == {None} \cup {Some(id) : id \in CatalogIds \cup {Phi3}}

PostConfigDefault ==
  /\ \E model_id \in PostedIds, save_ok \in BOOLEAN :
       post_config_default(model_id, save_ok)
  /\ UNCHANGED <<storeVars, availVars, checkVars, turnVars>>

PostConfigEnable ==
  /\ \E model_id \in PostedIds, save_ok \in BOOLEAN :
       post_config_enable(model_id, save_ok)
  /\ UNCHANGED <<storeVars, availVars, checkVars, turnVars>>

PostConfigDisable ==
  /\ \E model_id \in PostedIds, save_ok \in BOOLEAN :
       post_config_disable(model_id, save_ok)
  /\ UNCHANGED <<storeVars, availVars, checkVars, turnVars>>

NextPost ==
  \/ PostConfigDefault
  \/ PostConfigEnable
  \/ PostConfigDisable
  \/ AddModelConfig
  \/ RemoveModelConfig

SpecPost == InitCatalog /\ [][NextPost]_vars

-----------------------------------------------------------------------------
(* Specification of the pre-flight size check: model names in and out of the
   table, the modelfiles the daemon may report, prompts around each limit *)

Newline == <<"\n">>
FromLine == <<"F", "R", "O", "M", " ", "x">>
Parameter(value) == <<"P", "A", "R", "A", "M", "E", "T", "E", "R", " ">> \o NumCtx \o <<" ">> \o value
CommentLine == <<"#", " ">> \o NumCtx \o <<" ", "d", "e", "f", "a", "u", "l", "t">>

\* the answers of POST /api/show, as get_model_info passes them on
ModelInfos ==
  {None,
   Some(FromLine),
   Some(FromLine \o Newline \o Parameter(<<"2", "0", "4", "8">>)),
   Some(Parameter(<<"0">>)),
   Some(CommentLine \o Newline \o Parameter(<<"3", "2", "7", "6", "8">>) \o <<" ">>),
   Some(Parameter(<<"b", "i", "g">>)),
   Some(Parameter(<<"-", "1">>)),
   Some(Parameter(<<"4", "_", "0", "0", "0">>))}

ModelNames ==
  {Llama32_3b,
   <<"L", "l", "a", "m", "a", "3", ".", "2", ":", "3", "B">>,
   Llama32_3b \o <<"-", "q", "4">>,
   Llama32,
   Mistral7b,
   Phi3,
   CodeLlama7b,
   Phi3 \o <<"-">> \o CodeLlama7b,
   <<"g", "p", "t", "2">>}

\* prompt lengths: the short ones, the documented example, and the lengths
\* on both sides of 80% of each limit
PromptLens ==
  {0, 1, 3, 4, 5, 7, 8, 4000, 6552, 6556, 12796, 12800, 13104, 13107, 13108,
   26212, 26215, 26216, 52428, 52432, 104856, 104860}
Prompt(n) == [i \in 1..n |-> "a"]

\* a call of check_prompt_size that has not run yet
PendingChecks ==
  {[op |-> "pending", model_name |-> model_name, prompt_len |-> n,
    model_info |-> model_info] :
     model_name \in ModelNames, n \in PromptLens, model_info \in ModelInfos}

InitFit ==
  /\ InitStore
  /\ SERVICES_AVAILABLE = TRUE
  /\ InitCatalogDefault
  /\ ollama_model_names = << >>
  /\ available = Availability("none", {}, {})
  /\ token_check \in PendingChecks
  /\ turns = << >>
  /\ running = None

CheckPromptSize ==
  /\ token_check.op = "pending"
  /\ check_prompt_size(token_check.model_name, Prompt(token_check.prompt_len),
                       token_check.model_info)

NextFit == CheckPromptSize

SpecFit == InitFit /\ [][NextFit]_vars

-----------------------------------------------------------------------------
(* Properties *)

IsSystem(message) == message.role = "system"
IsNotSystem(message) == message.role # "system"
NonSystem(messages) == SelectSeq(messages, IsNotSystem)
SystemOnly(messages) == SelectSeq(messages, IsSystem)
Min(a, b) == IF a <= b THEN a ELSE b
LastN(seq, n) == SubSeq(seq, Len(seq) - n + 1, Len(seq))

\* C1: in every reachable state of the store (create, add_message, trim, chat
\* turns that complete or fail, with the back-fill of the user message's
\* token_count), total_tokens of every conversation is the sum of the
\* token_count of its messages, an unset count counting as 0.
C1_TotalIsSumAfterChatTurns ==
  \A c \in DOMAIN conversations :
    conversations[c].total_tokens = SumTokens(conversations[c].messages)

\* C2: after create and any sequence of add_message calls, with or without a
\* token_count, total_tokens is the sum of the token_count fields of the
\* messages present (unknown counted as 0); the conversation made of the
\* default system prompt, a user message without a count and an assistant
\* message with token_count 20 has total_tokens 20.
C2_TotalIsSumAfterAdds ==
  \A c \in DOMAIN conversations :
    LET conv == conversations[c]
        counts == [i \in 1..Len(conv.messages) |-> conv.messages[i].token_count]
    IN /\ conv.total_tokens = SumTokens(conv.messages)
       /\ counts = <<None, None, Some(20)>> => conv.total_tokens = 20

C2_Witness ==
  \E c \in DOMAIN conversations :
    LET conv == conversations[c]
    IN /\ Len(conv.messages) = 3
       /\ conv.messages[1].role = "system"
       /\ conv.messages[1].content = default_system_prompt
       /\ conv.messages[2].role = "user"
       /\ conv.messages[2].content = <<"Hi">>
       /\ conv.messages[2].token_count = None
       /\ conv.messages[3].role = "assistant"
       /\ conv.messages[3].token_count = Some(20)
       /\ conv.total_tokens = 20

\* C3: a trim, whatever the target, removes no system message and keeps the
\* most recent non-system messages: of n non-system messages at least
\* min(n, 2) remain, and those that remain are the last ones, in order.
C3_TrimKeepsSystemAndLastTwo ==
  [][last'.op = "trim" =>
       \A target \in TargetInputs :
         LET c == Get(last'.cid)
         IN trim_conversation(c, target) =>
              LET before == conversations[c].messages
                  after == conversations'[c].messages
                  others == NonSystem(before)
                  kept == NonSystem(after)
              IN /\ SystemOnly(after) = SystemOnly(before)
                 /\ Len(kept) >= Min(Len(others), 2)
                 /\ Len(kept) <= Len(others)
                 /\ kept = LastN(others, Len(kept))]_vars

\* a trim removed messages, stopped at the last two, and left a system message
C3_Witness ==
  /\ last.op = "trim" /\ last.status = "ok" /\ last.n >= 2
  /\ LET conv == conversations[Get(last.cid)]
     IN /\ Len(NonSystem(conv.messages)) = 2
        /\ Len(SystemOnly(conv.messages)) >= 1
        /\ 4 * conv.total_tokens > 3 * conv.max_tokens

\* C4: trim is idempotent: right after a trim with some target, a second trim
\* with the same target removes 0 messages and leaves the conversation as it
\* is, also when the first one stopped at 2 non-system messages with
\* total_tokens still above the target.
C4_TrimIdempotent ==
  [][last'.op = "trim" =>
       \A target \in TargetInputs :
         LET c == Get(last'.cid)
         IN trim_conversation(c, target) =>
              Trim(conversations'[c], target) =
                [conversation |-> conversations'[c], trimmed_count |-> 0]]_vars

\* a trim removed messages and stopped at two non-system messages while
\* total_tokens is above every target
C4_Witness ==
  /\ last.op = "trim" /\ last.status = "ok" /\ last.n >= 1
  /\ LET conv == conversations[Get(last.cid)]
     IN /\ Len(NonSystem(conv.messages)) = 2
        /\ conv.total_tokens > MaxTok
        /\ 4 * conv.total_tokens > 3 * conv.max_tokens

\* C5: export followed by import of the snapshot, into the same store or into
\* an empty one, yields the conversation it started from: same id, title,
\* model_id, timestamps, max_tokens, system_prompt, total_tokens and messages.
C5_ExportImportRoundTrip ==
  [][last'.op = "import" =>
       \A fresh \in BOOLEAN :
         LET c == Get(last'.cid)
         IN export_import(c, fresh) =>
              /\ c \in DOMAIN conversations'
              /\ conversations'[c] = conversations[c]
              /\ fresh => DOMAIN conversations' = {c}
              /\ ~fresh => DOMAIN conversations' = DOMAIN conversations]_vars

\* an import of a conversation with counted messages written at times with
\* and without a fraction of a second
C5_Witness ==
  /\ last.op = "import"
  /\ LET conv == conversations[Get(last.cid)]
     IN /\ Len(conv.messages) >= 3
        /\ conv.total_tokens > 0
        /\ conv.created_at % TicksPerSecond = 0
        /\ conv.updated_at % TicksPerSecond # 0

\* C6: in every reachable state (create, add_message with any role, trim) a
\* system-role message of a conversation is at the first position.
C6_SystemMessageFirst ==
  \A c \in DOMAIN conversations :
    \A i \in 1..Len(conversations[c].messages) :
      conversations[c].messages[i].role = "system" => i = 1

\* C7: in every reachable state (create, add_message with any role, trim,
\* import) a conversation holds at most one system-role message.
C7_AtMostOneSystemMessage ==
  \A c \in DOMAIN conversations :
    Len(SystemOnly(conversations[c].messages)) <= 1

\* The four naming conventions of the availability check, on the characters
Case1(id, name) == name = id
Case2(id, name) == name = id \o ColonLatest
Case3(id, name) ==
  /\ Len(name) >= Len(id) + 1
  /\ \A j \in 1..Len(id) : name[j] = id[j]
  /\ name[Len(id) + 1] = ":"
Case4(id, name) ==
  \E k \in 1..Len(id) :
    /\ id[k] = ":"
    /\ \A j \in 1..(k - 1) : id[j] # ":"
    /\ name = SubSeq(id, 1, k - 1) \o ColonLatest
AnyCase(id, names) ==
  \E i \in 1..Len(names) :
    \/ Case1(id, names[i])
    \/ Case2(id, names[i])
    \/ Case3(id, names[i])
    \/ Case4(id, names[i])

\* C8: the availability check answers true exactly when a daemon name equals
\* the id, or equals id + ":latest", or starts with id + ":", or the id has a
\* ":" and the part before its first ":" + ":latest" is a daemon name, all
\* case-sensitive; llama3.2:3b is available against [llama3.2:3b:latest],
\* llama3.2 against [llama3.2:latest], mistral:7b is not against [phi3:3.8b].
C8_AvailabilityFourCases ==
  available.op # "none" =>
    /\ \A id \in available.listed :
         (id \in available.ids) <=> AnyCase(id, ollama_model_names)
    /\ (/\ Llama32_3b \in available.listed
        /\ ollama_model_names = <<Llama32_3b \o ColonLatest>>)
         => Llama32_3b \in available.ids
    /\ (/\ Llama32 \in available.listed
        /\ ollama_model_names = <<Llama32 \o ColonLatest>>)
         => Llama32 \in available.ids
    /\ (/\ Mistral7b \in available.listed
        /\ ollama_model_names = <<Phi3>>)
         => Mistral7b \notin available.ids

\* a tagged id found available only through the daemon's untagged :latest
C8_Witness ==
  /\ available.op = "config"
  /\ ollama_model_names = <<Llama32 \o ColonLatest, Phi3>>
  /\ available.ids = {Llama32_3b}

\* C9: when the collaborator fails in a chat turn (it raises, times out or
\* returns no text), the caller gets an error, the user message appended in
\* that turn is still in the conversation, and no assistant message was
\* appended: the user message is the conversation's last message.
C9_FailedTurnKeepsUserMessage ==
  (last.op = "chat" /\ last.collab = "failed") =>
    /\ last.status = "500"
    /\ Get(last.cid) \in DOMAIN conversations
    /\ LET messages == conversations[Get(last.cid)].messages
       IN /\ Len(messages) >= 1
          /\ messages[Len(messages)].id = last.user
          /\ messages[Len(messages)].role = "user"
          /\ \A i \in 1..Len(messages) : messages[i].id <= last.user
    /\ uuid = last.user

\* a failed turn on a conversation that had earlier messages
C9_Witness ==
  /\ last.op = "chat" /\ last.collab = "failed" /\ last.status = "500"
  /\ Len(NonSystem(conversations[Get(last.cid)].messages)) >= 2

\* C10: in every reachable state of the catalog (add, remove, set default,
\* enable, disable, from a catalog whose default is present) default_model is
\* the id of a descriptor in available_models.
C10_DefaultModelInCatalog ==
  HasModel(config_data, get_default_model(config_data))

\* C11: when the constructor could not read models.json (missing or
\* malformed), the catalog holds the built-in default configuration, and no
\* catalog query or mutation fails its caller.
C11_LoadFailureFallsBackToDefault ==
  ReadFails(config_file) =>
    /\ config_data = DefaultConfig
    /\ last.status # "AttributeError"

\* C12: a trim of a conversation whose total_tokens is above the target
\* removes the shortest oldest-first prefix of the non-system messages after
\* which the running total (total_tokens minus the known counts of the removed
\* messages) is at most the target or at most 2 non-system messages remain;
\* it returns the length of that prefix, sets total_tokens to the running
\* total and leaves the system messages followed by the other non-system
\* messages in their order. At or under the target it changes nothing and
\* returns 0. With max_tokens 100 and ten messages of 15 tokens the default
\* trim removes 5 messages and leaves total_tokens 75.
C12_TrimRemovesShortestPrefix ==
  [][last'.op = "trim" =>
       \A target \in TargetInputs :
         LET c == Get(last'.cid)
         IN trim_conversation(c, target) =>
              LET before == conversations[c]
                  after == conversations'[c]
                  others == NonSystem(before.messages)
                  n == Len(others)
                  k == last'.n
                  target4 == IF target = None THEN 3 * before.max_tokens
                             ELSE 4 * Get(target)
                  Running(j) ==
                    before.total_tokens - SumTokens(SubSeq(others, 1, j))
                  Stop(j) == 4 * Running(j) <= target4 \/ n - j <= 2
              IN /\ before.total_tokens * 4 <= target4 =>
                      k = 0 /\ after = before
                 /\ before.total_tokens * 4 > target4 =>
                      /\ k \in 0..n
                      /\ Stop(k)
                      /\ \A j \in 0..(k - 1) : ~Stop(j)
                      /\ after =
                           [before EXCEPT
                              !.messages = SystemOnly(before.messages)
                                           \o SubSeq(others, k + 1, n),
                              !.total_tokens = Running(k)]
                 /\ (before = ExampleConversation /\ target = None) =>
                      /\ k = 5
                      /\ after.total_tokens = 75
                      /\ Len(NonSystem(after.messages)) = 5]_vars

\* the default trim of the conversation with max_tokens 100 and ten messages
\* of 15 tokens was done
C12_Witness ==
  /\ last.op = "trim" /\ last.status = "ok" /\ last.n = 5
  /\ LET conv == conversations[Get(last.cid)]
     IN /\ conv.max_tokens = 100
        /\ conv.total_tokens = 75
        /\ Len(NonSystem(conv.messages)) = 5
        /\ \A i \in 1..5 : NonSystem(conv.messages)[i].id = 7 + i

\* C13: a chat turn with a conversation id that is not in the store fails
\* with the not-found error of add_message, reported as the handler's error
\* response; the store is unchanged (no conversation created, no message
\* appended, no id handed out) and the collaborator is not called. A chat
\* turn without a conversation id creates exactly one conversation.
C13_ChatUnknownIdLeavesStore ==
  [][last'.op = "chat" =>
       \A conversation_id \in AnyRequestIds, reply \in AnyReplies :
         chat_completion(conversation_id, <<"Hi">>, "llama3.2:3b", reply) =>
           /\ (/\ conversation_id # None
               /\ Get(conversation_id) \notin DOMAIN conversations) =>
                 /\ last'.status = "500"
                 /\ last'.collab = "not called"
                 /\ conversations' = conversations
                 /\ uuid' = uuid
           /\ conversation_id = None =>
                 /\ DOMAIN conversations \subseteq DOMAIN conversations'
                 /\ Cardinality(DOMAIN conversations') =
                      Cardinality(DOMAIN conversations) + 1
                 /\ \A c \in DOMAIN conversations :
                      conversations'[c] = conversations[c]
           /\ (/\ conversation_id # None
               /\ Get(conversation_id) \in DOMAIN conversations) =>
                 DOMAIN conversations' = DOMAIN conversations]_vars

\* a chat turn named a deleted conversation while others are in the store
C13_Witness ==
  /\ last.op = "chat" /\ last.status = "500" /\ last.collab = "not called"
  /\ last.cid = Some(1)
  /\ 1 \notin DOMAIN conversations
  /\ conversations # << >>
  /\ uuid > 1

\* the descriptors with the enabled flag of the one named model_id set
WithEnabled(models, model_id, enabled) ==
  [i \in 1..Len(models) |->
     IF models[i].id = model_id THEN [models[i] EXCEPT !.enabled = enabled]
     ELSE models[i]]

\* what set_default_model, enable_model and disable_model leave behind, given
\* the catalog they are expected to leave when the id exists
MutatesAndPersists(model_id, save_ok, expected) ==
  IF ~HasModel(config_data, model_id)
  THEN /\ last'.status = "False"
       /\ config_data' = config_data
       /\ config_file' = config_file
  ELSE /\ config_data' = expected
       /\ save_ok => last'.status = "True" /\ config_file' = Some(expected)
       /\ ~save_ok => last'.status = "False" /\ config_file' = config_file

UniqueIds(models) ==
  \A i, j \in 1..Len(models) : models[i].id = models[j].id => i = j

\* C15: descriptor ids are unique in every reachable state of the catalog
\* (any sequence of add, remove, set default, enable, disable from a catalog
\* with distinct ids), and add_model with an id already present returns False
\* and leaves the catalog and the file as they are.
C15_DescriptorIdsUnique ==
  /\ [](UniqueIds(config_data.available_models))
  /\ [][last'.op = "add_model" =>
          \A model_id \in CatalogIds, enabled \in BOOLEAN, save_ok \in BOOLEAN :
            (/\ add_model(ModelData(model_id, enabled), save_ok)
             /\ HasModel(config_data, model_id)) =>
               /\ last'.status = "False"
               /\ config_data' = config_data
               /\ config_file' = config_file]_vars

\* an add was refused on a catalog of two descriptors that was saved
C15_Witness ==
  /\ last.op = "add_model" /\ last.status = "False"
  /\ Len(config_data.available_models) = 2
  /\ config_data.available_models[1].id # config_data.available_models[2].id
  /\ config_file = Some(config_data)

\* C16: updated_at >= created_at for every conversation in every reachable
\* state, and every operation that changes a conversation (add_message, a
\* rename, a trim that removes messages) leaves its updated_at at the time of
\* the operation.
C16_UpdatedAtRefreshed ==
  /\ [](\A c \in DOMAIN conversations :
          conversations[c].updated_at >= conversations[c].created_at)
  /\ [][\A c \in DOMAIN conversations \cap DOMAIN conversations' :
          conversations'[c] # conversations[c] =>
            conversations'[c].updated_at = now']_vars

\* the integers the daemon's modelfile gives for num_ctx, line by line
ReportedNumCtx(model_info) ==
  IF model_info = None THEN << >>
  ELSE LET lines == SplitLines(Get(model_info))
           parsed == [i \in 1..Len(lines) |->
                        IF Contains(NumCtx, lines[i])
                        THEN ParseInt(LastWord(lines[i])) ELSE None]
       IN SelectSeq(parsed, LAMBDA v : v # None)

\* the table entries whose pattern the lower-cased name contains
Families(model_name) ==
  {i \in 1..Len(model_limits) : Contains(model_limits[i][1], Lower(model_name))}

EstimateIsFloorOfQuarter(check) ==
  /\ 4 * check.estimated_tokens <= check.prompt_len
  /\ check.prompt_len < 4 * check.estimated_tokens + 4
  /\ (check.prompt_len = 0 => check.estimated_tokens = 0)

TableLimit(check) ==
  IF Families(check.model_name) = {}
  THEN check.context_limit = DefaultContextLimit
  ELSE \E i \in Families(check.model_name) :
         /\ \A j \in Families(check.model_name) : i <= j
         /\ check.context_limit = model_limits[i][2]

DocumentedExample(check) ==
  (check.prompt_len = 4000 /\ check.context_limit = 8192) =>
    (check.estimated_tokens = 1000 /\ check.fits)

\* C17 as stated: every check that returns reports floor(len/4) tokens, fits exactly when
\* 5 * tokens < 4 * limit, and the limit is the table value of a family the
\* lower-cased name contains, 4096 when it contains none.
C17_LimitFromTableOnly ==
  (token_check.op = "check" /\ ~token_check.raises) =>
    /\ EstimateIsFloorOfQuarter(token_check)
    /\ token_check.fits <=>
         5 * token_check.estimated_tokens < 4 * token_check.context_limit
    /\ IF Families(token_check.model_name) = {}
       THEN token_check.context_limit = DefaultContextLimit
       ELSE \E i \in Families(token_check.model_name) :
              token_check.context_limit = model_limits[i][2]
    /\ DocumentedExample(token_check)

\* C17 amended: the limit is the first integer the daemon's modelfile gives
\* for num_ctx when it gives one, otherwise the value of the first table
\* family the lower-cased name contains, otherwise 4096; a limit of 0 makes
\* the check raise, and every other check reports floor(len/4) tokens and
\* fits exactly when 5 * tokens < 4 * limit.
C17_LimitFromDaemonThenTable ==
  token_check.op = "check" =>
    /\ IF ReportedNumCtx(token_check.model_info) # << >>
       THEN token_check.context_limit =
              Get(ReportedNumCtx(token_check.model_info)[1])
       ELSE TableLimit(token_check)
    /\ token_check.raises <=> token_check.context_limit = 0
    /\ ~token_check.raises =>
         /\ EstimateIsFloorOfQuarter(token_check)
         /\ token_check.fits <=>
              5 * token_check.estimated_tokens < 4 * token_check.context_limit
         /\ DocumentedExample(token_check)

C17_Witness ==
  /\ token_check.op = "check"
  /\ token_check.model_info = None
  /\ token_check.prompt_len = 4000
  /\ token_check.context_limit = 8192
  /\ token_check.estimated_tokens = 1000
  /\ token_check.fits

NotFoundOps == {"get", "delete", "rename", "export", "add", "trim", "for_model"}
NotFoundStatus == {"ValueError", "None", "False"}

\* C18: get, delete, rename, export, addMessage, trim and forModel on an id
\* that is not in the store report not-found and leave the store as it was;
\* a delete of an id in the store removes that conversation only, and the id
\* stays out of the store, so that every later call on it is such a call.
C18_UnknownIdReportsNotFound ==
  /\ [][(last'.op \in NotFoundOps /\ last'.cid # None
          /\ Get(last'.cid) \notin DOMAIN conversations) =>
          /\ last'.status \in NotFoundStatus
          /\ conversations' = conversations
          /\ uuid' = uuid]_vars
  /\ [][(last'.op = "delete" /\ Get(last'.cid) \in DOMAIN conversations) =>
          /\ last'.status = "True"
          /\ DOMAIN conversations' = DOMAIN conversations \ {Get(last'.cid)}
          /\ \A c \in DOMAIN conversations' :
                conversations'[c] = conversations[c]]_vars
  /\ [][\A c \in 1..uuid :
          c \notin DOMAIN conversations => c \notin DOMAIN conversations']_vars

C18_Witness ==
  /\ last.op \in {"add", "trim", "rename"}
  /\ last.status \in NotFoundStatus
  /\ last.cid = Some(1)
  /\ uuid >= 2
  /\ 1 \notin DOMAIN conversations
  /\ DOMAIN conversations # {}

\* the state a completed chat turn leaves: both messages counted, the
\* assistant message last, the user message right before it, and the
\* estimated_tokens handed back equal to the sum of the messages' counts
TurnAccounted ==
  LET messages == conversations[Get(last.cid)].messages
      n == Len(messages)
  IN /\ n >= 2
     /\ messages[n].id = last.n
     /\ messages[n].role = "assistant"
     /\ messages[n].token_count # None
     /\ messages[n - 1].id = last.user
     /\ messages[n - 1].role = "user"
     /\ messages[n - 1].token_count # None
     /\ last.estimated_tokens = SumTokens(messages)

Stepped(r) == turns'[r].pc # turns[r].pc

\* C20: while a chat turn stands between its first and its last mutation of
\* a conversation, no other turn on that conversation executes a step, and
\* at most one turn on a conversation stands there at a time.
C20_TurnIsCriticalSection ==
  /\ [][\A r \in DOMAIN turns : \A o \in DOMAIN turns \ {r} :
          (Stepped(r) /\ turns[o].pc \in TurnMutating) =>
            turns'[r].conv_id # turns[o].conv_id]_vars
  /\ [](\A r \in DOMAIN turns : \A o \in DOMAIN turns \ {r} :
          (turns[r].pc \in TurnMutating /\ turns[o].pc \in TurnMutating) =>
            turns[r].conv_id # turns[o].conv_id)

\* two turns on one conversation in flight together: the first has appended
\* its user message and made its context check, the second waits for the loop
C20_Witness ==
  /\ Len(turns) = 2
  /\ turns[1].pc = "checked"
  /\ turns[2].pc = "received"
  /\ turns[2].conversation_id = Some(turns[1].conv_id)
  /\ running = Some(1)
  /\ Len(conversations[turns[1].conv_id].messages) = 2

\* the {role, content} projection of a message sequence
Projection(messages) ==
  [i \in 1..Len(messages) |->
     [role |-> messages[i].role, content |-> messages[i].content]]

\* the messages of the turn's conversation as the context check left them:
\* those of the next state, less the assistant message of a completed turn
CheckedMessages ==
  LET after == conversations'[Get(last'.cid)].messages
  IN IF last'.status = "200" THEN SubSeq(after, 1, Len(after) - 1) ELSE after

\* C21: in a chat turn trim is invoked exactly when, with the user message
\* appended, 5 * total_tokens > 4 * max_tokens, and the history of the
\* generation step is the projection of the messages after check and trim.
C21_TrimIffOverEightyAndHistoryCurrent ==
  [][(last'.op = "chat" /\ last'.user # 0) =>
       LET cid == Get(last'.cid)
           total == IF cid \in DOMAIN conversations
                    THEN conversations[cid].total_tokens ELSE 0
       IN /\ last'.trim_invoked <=>
               5 * total > 4 * conversations'[cid].max_tokens
          /\ last'.history = Projection(CheckedMessages)]_vars

\* C22: the generation step makes the single-prompt call, with the request's
\* message, exactly when the history has one message; otherwise it makes the
\* chat call with the whole history, followed by a single-prompt call with
\* the request's message exactly when the chat call is not supported.
C22_GenerateIffSingleMessage ==
  [][(last'.op = "chat" /\ last'.calls # << >>) =>
       LET calls == last'.calls
           user_message ==
             CHOOSE m \in {conversations'[Get(last'.cid)].messages[i] :
                             i \in 1..Len(conversations'[Get(last'.cid)].messages)} :
               m.id = last'.user
       IN /\ (calls[1].call = "generate") <=> (Len(last'.history) = 1)
          /\ calls[1].call = "generate" =>
               (Len(calls) = 1 /\ calls[1].prompt = user_message.content)
          /\ calls[1].call # "generate" =>
               /\ calls[1].call = "chat"
               /\ calls[1].messages = last'.history
               /\ Len(calls) = 2 <=> calls[1].outcome = "AttributeError"
               /\ Len(calls) = 2 =>
                    /\ calls[2].call = "generate"
                    /\ calls[2].prompt = user_message.content
               /\ Len(calls) <= 2]_vars

\* both cases: a completed turn on a conversation without other messages,
\* which took the single-prompt call
C22_Witness ==
  /\ last.op = "chat"
  /\ last.status = "200"
  /\ Len(last.history) = 1
  /\ Len(last.calls) = 1
  /\ last.calls[1].call = "generate"

\* a turn whose chat call was not supported and whose fallback answered
C22_WitnessFallback ==
  /\ last.op = "chat"
  /\ last.status = "200"
  /\ Len(last.history) >= 2
  /\ Len(last.calls) = 2
  /\ last.calls[1].outcome = "AttributeError"
  /\ last.calls[2].call = "generate"

\* the calls of the turn that the collaborator answered or failed
Answered(calls) == SelectSeq(calls, LAMBDA c : c.outcome # "AttributeError")

\* C23: a turn makes one generation call, or two when the first is a chat
\* call that is not supported; a failed call is the turn's last call, and the
\* turn then ends with status 500 and without an assistant message.
C23_NoRetryAfterFailure ==
  [][(last'.op = "chat" /\ last'.calls # << >>) =>
       LET calls == last'.calls
       IN /\ Len(Answered(calls)) = 1
          /\ Len(calls) - Len(Answered(calls)) <= 1
          /\ \A i \in 1..Len(calls) :
               /\ calls[i].outcome = "AttributeError" =>
                    (i = 1 /\ calls[i].call = "chat" /\ Len(calls) = 2)
               /\ calls[i].outcome = "failed" =>
                    /\ i = Len(calls)
                    /\ last'.status = "500"
                    /\ last'.n = 0
                    /\ uuid' = last'.user]_vars

\* a turn whose fallback call failed: two calls, one failure, status 500
C23_Witness ==
  /\ last.op = "chat"
  /\ last.status = "500"
  /\ Len(last.calls) = 2
  /\ last.calls[1].outcome = "AttributeError"
  /\ last.calls[2].outcome = "failed"

MessageIds(conversation) ==
  {conversation.messages[i].id : i \in 1..Len(conversation.messages)}

PostOps == {"post_default", "post_enable", "post_disable"}

\* C25: the set-default, enable and disable handlers answer a model id that
\* is not in the catalog with status 404, and leave the catalog and its file
\* as they were.
C25_UnknownModelIs404 ==
  [][last'.op \in PostOps =>
       \A model_id \in PostedIds \ {None}, save_ok \in BOOLEAN :
         (/\ ~HasModel(config_data, Get(model_id))
          /\ \/ post_config_default(model_id, save_ok)
             \/ post_config_enable(model_id, save_ok)
             \/ post_config_disable(model_id, save_ok)) =>
           /\ last'.status = "404"
           /\ UNCHANGED <<config_data, config_file>>]_vars

\* C26: total_tokens of every conversation is at least 0 in every reachable
\* state, whatever the sequence of creations, added messages, chat turns and
\* trims.
C26_TotalTokensNonNegative ==
  \A c \in DOMAIN conversations : conversations[c].total_tokens >= 0

CatalogOps == {"set_default", "enable", "disable", "add_model", "remove_model"}

\* C27: whenever set_default_model, enable_model, disable_model, add_model
\* or remove_model returns False, the failure to write the file included,
\* the catalog in memory is exactly what it was before the call.
C27_FalseLeavesCatalog ==
  [][(last'.op \in CatalogOps /\ last'.status = "False") =>
       config_data' = config_data]_vars

\* C28: the user message a chat turn appends is not removed by the trim of
\* that turn: it is the last message of the conversation after the context
\* check, and the history handed to the collaborator ends with it.
C28_UserMessageSurvivesTrim ==
  [][(last'.op = "chat" /\ last'.calls # << >>) =>
       \A message \in ChatMessages :
         (\E conversation_id \in RequestIds, model \in ModelIds,
             reply \in Replies :
            chat_completion(conversation_id, message, model, reply)) =>
           LET history == last'.history
               checked == CheckedMessages
           IN /\ Len(history) >= 1 /\ Len(checked) >= 1
              /\ history[Len(history)] = [role |-> "user", content |-> message]
              /\ checked[Len(checked)].id = last'.user
              /\ checked[Len(checked)].content = message]_vars

\* a turn whose trim removed a message and whose history ends with the
\* turn's own three-word message
C28_Witness ==
  /\ last.op = "chat" /\ last.status = "200"
  /\ last.trim_invoked /\ last.trimmed > 0
  /\ last.history[Len(last.history)].content = <<"Hi", "there", "friend">>

\* C29: in every chat turn on a conversation made by create_conversation,
\* whether its system prompt was supplied, empty or omitted, the history has
\* at least 2 messages, the first of them a system message, and the
\* generation step starts with the chat call on that history, not with the
\* single-prompt call.
C29_ChatCallOnCreatedConversations ==
  (last.op = "chat" /\ last.calls # << >>) =>
    /\ Len(last.history) >= 2
    /\ last.history[1].role = "system"
    /\ last.calls[1].call = "chat"
    /\ last.calls[1].messages = last.history

\* a turn on a conversation created with an omitted or empty system prompt
\* and trimmed in the turn: the default persona and the last two messages go to chat
C29_Witness ==
  /\ last.op = "chat" /\ last.status = "200"
  /\ last.trimmed > 0
  /\ Len(last.history) = 3
  /\ last.history[1] = [role |-> "system", content |-> default_system_prompt]
  /\ conversations[Get(last.cid)].system_prompt = Some(default_system_prompt)
  /\ last.calls[1].call = "chat"

\* C30: a trim that returns 0 leaves the conversation as it was: the same
\* messages in the same order, the same total_tokens and updated_at, also
\* when total_tokens is above the target and at most 2 non-system messages
\* exist.
C30_TrimOfNothingChangesNothing ==
  [][(last'.op = "trim" /\ last'.status = "ok" /\ last'.n = 0) =>
       conversations' = conversations]_vars

====
